---- MODULE Spec2Model ----
(***************************************************************************)
(* Inventory consistency of golang-orderapp: the products, warehouse_stocks*)
(* orders and stock_transfers tables, and the repository operations that   *)
(* change them.  Every repository call runs its SQL statements one by one  *)
(* against PostgreSQL at its default isolation level (READ COMMITTED): a   *)
(* plain SELECT reads the committed rows (and the transaction's own        *)
(* writes), an UPDATE or SELECT ... FOR UPDATE first takes the row lock,   *)
(* waiting while another transaction holds it, and then works on the       *)
(* latest committed row; locks are held until COMMIT or ROLLBACK.          *)
(***************************************************************************)
EXTENDS Integers, Sequences, FiniteSets, TLC

\* ---------------------------------------------------------------- bounds
NumProducts == 2
NumWarehouses == 2
NumOrders == 2
NumTransfers == 2
NumUsers == 2
NumProcs == 2
MaxQty == 2
MaxItems == 2
QtyCap == 3
MaxPrice == 2
MaxCreated == 1

Products == 1..NumProducts
Warehouses == 1..NumWarehouses
Orders == 1..NumOrders
Transfers == 1..NumTransfers
Users == 1..NumUsers
Procs == 1..NumProcs
WsKeys == Warehouses \X Products

\* A nil *int (from_warehouse_id / to_warehouse_id) and "no warehouse".
NULL == 0

OrderStatuses == {"pending", "confirmed", "cancelled"}
TransferStatuses == {"pending", "completed", "failed", "cancelled"}

\* ----------------------------------------------------------------- state
VARIABLES
    product,          \* products table: id -> row
    warehouses,       \* warehouses table: id -> row
    warehouse_stocks, \* warehouse_stocks table: <<warehouse_id, product_id>> -> row
    orders,           \* orders table with its order_items: id -> row
    stock_transfers,  \* stock_transfers table: id -> row
    proc,             \* per request worker: position in the repository call and its locals
    tx,               \* per request worker: uncommitted writes (and so row locks) of its open transactions
    held,             \* history: per order, quantity currently taken out of committed stock on its behalf
    applied,          \* history: per transfer, number of committed applications of its quantity to the ledger
    pre,              \* history: committed tables when the sequential client's current call began
    receipt,          \* history: per order, what CreateOrder returned to its caller
    ledger,           \* history: per stock row, the deltas of the transactions committed on it
    prev              \* history: the sequential client's previous call, if it was a successful confirmation

dbVars == <<product, warehouses, warehouse_stocks, orders, stock_transfers>>
vars == <<product, warehouses, warehouse_stocks, orders, stock_transfers, proc, tx, held, applied, pre, receipt, ledger, prev>>

NoProduct == [exists |-> FALSE, price |-> 0, stock |-> 0, warehouse_id |-> NULL]
NoStock == [exists |-> FALSE, quantity |-> 0, reserved_quantity |-> 0]
NoOrder == [exists |-> FALSE, user_id |-> 0, total_amount |-> 0, status |-> "pending", items |-> <<>>]
NoTransfer == [exists |-> FALSE, from_warehouse_id |-> NULL, to_warehouse_id |-> NULL,
               product_id |-> 0, quantity |-> 0, status |-> "pending", completed_at |-> FALSE]

Unlocked(row) == [locked |-> FALSE, row |-> row]
Written(row) == [locked |-> TRUE, row |-> row]

NoTx == [orders |-> [o \in Orders |-> Unlocked(NoOrder)],
         ws |-> [k \in WsKeys |-> Unlocked(NoStock)],
         product |-> [i \in Products |-> Unlocked(NoProduct)],
         transfers |-> [t \in Transfers |-> Unlocked(NoTransfer)]]

Idle == [pc |-> "idle", op |-> "none", id |-> 0, user |-> 0, status |-> "none",
         cur |-> "none", items |-> <<>>, idx |-> 0, wh |-> NULL, found |-> FALSE,
         quantity |-> 0, operation |-> "none", totalAmount |-> 0, orderItems |-> <<>>,
         AvailableStock |-> 0, result |-> "none"]

Snapshot == [product |-> product, warehouses |-> warehouses, warehouse_stocks |-> warehouse_stocks,
             orders |-> orders, stock_transfers |-> stock_transfers]
NoSnapshot == [product |-> [i \in Products |-> NoProduct],
               warehouses |-> [w \in Warehouses |-> [exists |-> FALSE]],
               warehouse_stocks |-> [k \in WsKeys |-> NoStock],
               orders |-> [o \in Orders |-> NoOrder], stock_transfers |-> [t \in Transfers |-> NoTransfer]]
NoReceipt == [valid |-> FALSE, total_amount |-> 0, items |-> <<>>]
\* No transaction has committed a change of the row; none has had to wait for another.
NoDeltas == [delta |-> 0, commits |-> 0, waited |-> FALSE]
NoPrev == [valid |-> FALSE, order |-> 0, product |-> NoSnapshot.product,
           warehouse_stocks |-> NoSnapshot.warehouse_stocks]

\* --------------------------------------------------------------- helpers
RECURSIVE SumSet(_, _)
SumSet(f, S) == IF S = {} THEN 0
                ELSE LET x == CHOOSE y \in S : TRUE IN f[x] + SumSet(f, S \ {x})

\* Rows as a transaction sees them: its own uncommitted write, else the committed row.
ReadStock(p, k) == IF tx[p].ws[k].locked THEN tx[p].ws[k].row ELSE warehouse_stocks[k]
ReadProduct(p, i) == IF tx[p].product[i].locked THEN tx[p].product[i].row ELSE product[i]
ReadOrder(p, o) == IF tx[p].orders[o].locked THEN tx[p].orders[o].row ELSE orders[o]
ReadTransfer(p, t) == IF tx[p].transfers[t].locked THEN tx[p].transfers[t].row ELSE stock_transfers[t]

\* A row lock held by another worker's open transaction makes the statement wait.
StockFree(p, k) == \A q \in Procs \ {p} : ~tx[q].ws[k].locked
ProductFree(p, i) == \A q \in Procs \ {p} : ~tx[q].product[i].locked
OrderFree(p, o) == \A q \in Procs \ {p} : ~tx[q].orders[o].locked
TransferFree(p, t) == \A q \in Procs \ {p} : ~tx[q].transfers[t].locked

\* Every committed quantity is within the window in which new calls are accepted.
Bounded == /\ \A k \in WsKeys : warehouse_stocks[k].quantity \in -QtyCap..QtyCap
           /\ \A i \in Products : product[i].stock \in -QtyCap..QtyCap

\* INSERT ... ON CONFLICT (warehouse_id, product_id) DO UPDATE SET quantity = quantity + $3
Upsert(ws, k, q) == IF ws[k].exists
                    THEN [ws EXCEPT ![k].quantity = @ + q]
                    ELSE [ws EXCEPT ![k] = [exists |-> TRUE, quantity |-> q, reserved_quantity |-> 0]]

\* UPDATE warehouse_stocks SET quantity = quantity + $1 WHERE ...: no row, no change.
AddToRow(ws, k, d) == IF ws[k].exists THEN [ws EXCEPT ![k].quantity = @ + d] ELSE ws

\* ------------------------------------------------ product administration
\* productRepo.UpdateProduct: overwrite price, stock and home warehouse, shift the stock rows.
UpdateProduct(i, pr, s, w) ==
    /\ product[i].exists
    /\ LET currentWarehouseID == product[i].warehouse_id
           currentStock == product[i].stock
           stockDiff == s - currentStock
       IN /\ product' = [product EXCEPT ![i].price = pr, ![i].stock = s, ![i].warehouse_id = w]
          /\ warehouse_stocks' =
                IF currentWarehouseID # w
                THEN Upsert(AddToRow(warehouse_stocks, <<currentWarehouseID, i>>, -currentStock), <<w, i>>, s)
                ELSE IF stockDiff # 0
                     THEN AddToRow(warehouse_stocks, <<w, i>>, stockDiff)
                     ELSE warehouse_stocks
    /\ UNCHANGED <<warehouses, orders, stock_transfers>>

\* warehouseRepo.UpdateStock: set the quantity of one stock row, creating it if absent.
\* Stock rows are kept for existing products only.
UpdateStock(w, i, q) ==
    /\ product[i].exists
    /\ warehouse_stocks' =
          IF warehouse_stocks[<<w, i>>].exists
          THEN [warehouse_stocks EXCEPT ![<<w, i>>].quantity = q]
          ELSE [warehouse_stocks EXCEPT ![<<w, i>>] = [exists |-> TRUE, quantity |-> q, reserved_quantity |-> 0]]
    /\ UNCHANGED <<product, warehouses, orders, stock_transfers>>

\* warehouseRepo.AddStock: add to the quantity of one stock row, creating it if absent.
AddStock(w, i, q) ==
    /\ product[i].exists
    /\ warehouse_stocks' =
          IF warehouse_stocks[<<w, i>>].exists
          THEN [warehouse_stocks EXCEPT ![<<w, i>>].quantity = @ + q]
          ELSE [warehouse_stocks EXCEPT ![<<w, i>>] = [exists |-> TRUE, quantity |-> q, reserved_quantity |-> 0]]
    /\ UNCHANGED <<product, warehouses, orders, stock_transfers>>

\* ------------------------------------------------------- the stock ledger
Available(row) == row.quantity - row.reserved_quantity

\* The lookup comparing q with what all warehouses hold together instead of with each row.
SufficientRowsInTotal(ws, i, q) ==
    {w \in Warehouses : /\ ws[<<w, i>>].exists
                        /\ SumSet([v \in Warehouses |-> ws[<<v, i>>].quantity], Warehouses) >= q}

\* Warehouses holding a row of product i with quantity >= q (the WHERE clause of the lookup).
SufficientRows(ws, i, q) ==
    {w \in Warehouses : ws[<<w, i>>].exists /\ ws[<<w, i>>].quantity >= q}

\* ORDER BY quantity DESC LIMIT 1: any of the rows with the highest quantity.
Fullest(ws, i, S) == {w \in S : \A v \in S : ws[<<v, i>>].quantity <= ws[<<w, i>>].quantity}

TotalAvailable(ws, i) ==
    SumSet([w \in Warehouses |-> IF ws[<<w, i>>].exists THEN Available(ws[<<w, i>>]) ELSE 0], Warehouses)

\* productRepo.CheckWarehouseStock on the committed tables: the set of answers it can give.
CheckWarehouseStock(i, q) ==
    LET S == IF product[i].exists THEN SufficientRows(warehouse_stocks, i, q) ELSE {}  \* JOIN products
    IN IF S = {}
       THEN {[ok |-> FALSE, WarehouseID |-> NULL, RequiredStock |-> q,
              AvailableStock |-> TotalAvailable(warehouse_stocks, i)]}
       ELSE {[ok |-> Available(warehouse_stocks[<<w, i>>]) >= q, WarehouseID |-> w, RequiredStock |-> q,
              AvailableStock |-> Available(warehouse_stocks[<<w, i>>])] : w \in Fullest(warehouse_stocks, i, S)}

\* ------------------------------------------------------ request workers
Ready(p) == proc[p].pc = "idle"

\* The two CreateOrder implementations: with the warehouse ledger, and with the single
\* stock counter of the product.
Creating(p) == proc[p].op \in {"CreateOrder", "CreateOrderSingle"}

\* The call returns r; the deferred tx.Rollback drops whatever was not committed.  The
\* call's arguments stay with the answer.
Return(p, r) ==
    /\ proc' = [proc EXCEPT ![p] = [Idle EXCEPT !.pc = "done", !.op = proc[p].op, !.id = proc[p].id,
                                                 !.user = proc[p].user, !.status = proc[p].status,
                                                 !.items = IF Creating(p) THEN proc[p].items ELSE <<>>,
                                                 !.quantity = proc[p].quantity,
                                                 !.operation = proc[p].operation, !.result = r]]
    /\ tx' = [tx EXCEPT ![p] = NoTx]

Item(p) == proc[p].items[proc[p].idx]
\* The operation argument of UpdateWarehouseStock: given by the caller, or "decrease" when
\* UpdateOrderStatus confirms and "increase" when it takes a confirmation back.
Direct(p) == proc[p].op = "UpdateWarehouseStock"
Decreasing(p) == IF Direct(p) THEN proc[p].operation = "decrease" ELSE proc[p].status = "confirmed"
\* The UpdateOrderStatus that keeps stock in the product's single counter.
Single(p) == proc[p].op = "UpdateOrderStatusSingle"

\* UpdateOrderStatus without the early return: a request for the status the order already
\* has runs the update as if the order were not yet in that status.
UpdateOrderStatus_SelectUncompared(p, o, u, s) ==
    /\ Ready(p)
    /\ Bounded
    /\ LET call == [Idle EXCEPT !.op = "UpdateOrderStatus", !.id = o, !.user = u, !.status = s]
       IN IF ~orders[o].exists \/ orders[o].user_id # u
          THEN proc' = [proc EXCEPT ![p] = [call EXCEPT !.pc = "done", !.result = "not_found"]]
          ELSE proc' = [proc EXCEPT ![p] = [call EXCEPT !.pc = "uos_update",
                                                         !.cur = IF orders[o].status = s THEN "pending"
                                                                 ELSE orders[o].status]]
    /\ UNCHANGED <<dbVars, tx>>

\* orderRepo.UpdateOrderStatus, SELECT status ... WHERE id = $1 AND user_id = $2, and the
\* early return when the order already has the requested status.
UpdateOrderStatus_Select(p, o, u, s) ==
    /\ Ready(p)
    /\ Bounded
    /\ LET call == [Idle EXCEPT !.op = "UpdateOrderStatus", !.id = o, !.user = u, !.status = s]
       IN IF ~orders[o].exists \/ orders[o].user_id # u
          THEN proc' = [proc EXCEPT ![p] = [call EXCEPT !.pc = "done", !.result = "not_found"]]
          ELSE IF orders[o].status = s
               THEN proc' = [proc EXCEPT ![p] = [call EXCEPT !.pc = "done", !.result = "ok"]]
               ELSE proc' = [proc EXCEPT ![p] = [call EXCEPT !.pc = "uos_update", !.cur = orders[o].status]]
    /\ UNCHANGED <<dbVars, tx>>

\* The status UPDATE followed by a restoring of stock on every way into 'cancelled' or
\* 'pending', whatever the status was.
UpdateOrderStatus_UpdateRestoring(p) ==
    /\ proc[p].pc = "uos_update"
    /\ OrderFree(p, proc[p].id)
    /\ LET o == proc[p].id
           s == proc[p].status
       IN IF ~orders[o].exists \/ orders[o].user_id # proc[p].user
          THEN Return(p, "not_found")
          ELSE /\ tx' = [tx EXCEPT ![p].orders[o] = Written([orders[o] EXCEPT !.status = s])]
               /\ proc' = [proc EXCEPT ![p].pc = "uos_items"]
    /\ UNCHANGED dbVars

\* UPDATE orders SET status = $1 WHERE id = $2 AND user_id = $3, in the order's transaction.
UpdateOrderStatus_Update(p) ==
    /\ proc[p].pc = "uos_update"
    /\ OrderFree(p, proc[p].id)
    /\ LET o == proc[p].id
           s == proc[p].status
           stockChange == \/ (s = "confirmed" /\ proc[p].cur # "confirmed")
                          \/ (s = "cancelled" /\ proc[p].cur = "confirmed")
                          \/ (s = "pending" /\ proc[p].cur = "confirmed")
       IN IF ~orders[o].exists \/ orders[o].user_id # proc[p].user
          THEN Return(p, "not_found")
          ELSE /\ tx' = [tx EXCEPT ![p].orders[o] = Written([orders[o] EXCEPT !.status = s])]
               /\ proc' = [proc EXCEPT ![p].pc = IF stockChange THEN "uos_items" ELSE "uos_commit"]
    /\ UNCHANGED dbVars

\* r.GetOrderItems(orderID): read through the pool, so it sees the committed rows.
UpdateOrderStatus_GetOrderItems(p) ==
    /\ proc[p].pc = "uos_items"
    /\ LET items == IF orders[proc[p].id].exists
                    THEN SelectSeq(orders[proc[p].id].items, LAMBDA it : product[it.product_id].exists)
                    ELSE <<>>
       IN proc' = [proc EXCEPT ![p].items = items, ![p].idx = 1,
                               ![p].pc = IF items = <<>> THEN "uos_commit"
                                         ELSE IF Single(p) THEN "uoss_stock"
                                         ELSE IF Decreasing(p) THEN "uos_check" ELSE "uws_select"]
    /\ UNCHANGED <<dbVars, tx>>

\* productRepo.CheckWarehouseStock(item.ProductID, item.Quantity) before each decrease.
UpdateOrderStatus_CheckStock(p) ==
    /\ proc[p].pc = "uos_check"
    /\ \E r \in CheckWarehouseStock(Item(p).product_id, Item(p).quantity) :
          IF r.ok
          THEN /\ proc' = [proc EXCEPT ![p].pc = "uws_select"]
               /\ UNCHANGED tx
          ELSE Return(p, "insufficient")
    /\ UNCHANGED dbVars

\* productRepo.UpdateWarehouseStock, in a transaction of its own: which warehouse to change.
\* decrease: the fullest row with quantity >= $2; increase: the product's home warehouse.
UpdateWarehouseStock_Select(p) ==
    /\ proc[p].pc = "uws_select"
    /\ LET i == Item(p).product_id
           S == SufficientRows(warehouse_stocks, i, Item(p).quantity)
           any == {w \in Warehouses : warehouse_stocks[<<w, i>>].exists}
           found == IF Decreasing(p) THEN Fullest(warehouse_stocks, i, S)
                    ELSE IF product[i].exists /\ product[i].warehouse_id # NULL
                         THEN {product[i].warehouse_id}
                         ELSE any
       IN IF found = {}
          THEN Return(p, "not_found")
          ELSE /\ \E w \in found : proc' = [proc EXCEPT ![p].wh = w, ![p].pc = "uws_stock"]
               /\ UNCHANGED tx
    /\ UNCHANGED dbVars

\* The ledger transaction without its UPDATE of warehouse_stocks.
UpdateWarehouseStock_StockSkipped(p) ==
    /\ proc[p].pc = "uws_stock"
    /\ proc' = [proc EXCEPT ![p].pc = "uws_product"]
    /\ UNCHANGED <<dbVars, tx>>

\* UPDATE warehouse_stocks SET quantity = quantity -/+ $1 WHERE product_id = $2 AND warehouse_id = $3
UpdateWarehouseStock_Stock(p) ==
    /\ proc[p].pc = "uws_stock"
    /\ LET k == <<proc[p].wh, Item(p).product_id>>
           d == IF Decreasing(p) THEN -Item(p).quantity ELSE Item(p).quantity
       IN /\ warehouse_stocks[k].exists => StockFree(p, k)
          /\ tx' = IF warehouse_stocks[k].exists
                   THEN [tx EXCEPT ![p].ws[k] = Written([warehouse_stocks[k] EXCEPT !.quantity = @ + d])]
                   ELSE tx
    /\ proc' = [proc EXCEPT ![p].pc = "uws_product"]
    /\ UNCHANGED dbVars

\* The loop of UpdateOrderStatus left after its first item.
UpdateWarehouseStock_CommitFirstItem(p) ==
    /\ proc[p].pc = "uws_product"
    /\ LET i == Item(p).product_id
           d == IF Decreasing(p) THEN -Item(p).quantity ELSE Item(p).quantity
       IN /\ ProductFree(p, i)
          /\ product' = IF product[i].exists THEN [product EXCEPT ![i].stock = @ + d] ELSE product
          /\ warehouse_stocks' = [k \in WsKeys |-> ReadStock(p, k)]
          /\ tx' = [tx EXCEPT ![p].ws = NoTx.ws, ![p].product = NoTx.product]
          /\ proc' = IF Direct(p)
                      THEN [proc EXCEPT ![p] = [Idle EXCEPT !.pc = "done", !.op = proc[p].op, !.id = i,
                                                             !.quantity = proc[p].quantity,
                                                             !.operation = proc[p].operation,
                                                             !.result = "ok"]]
                      ELSE [proc EXCEPT ![p].wh = NULL, ![p].pc = "uos_commit"]
    /\ UNCHANGED <<warehouses, orders, stock_transfers>>

\* UPDATE products SET stock = stock -/+ $1 WHERE id = $2, then tx.Commit of the ledger
\* transaction; the loop of UpdateOrderStatus goes on to the next item.
UpdateWarehouseStock_Commit(p) ==
    /\ proc[p].pc = "uws_product"
    /\ LET i == Item(p).product_id
           d == IF Decreasing(p) THEN -Item(p).quantity ELSE Item(p).quantity
           last == proc[p].idx = Len(proc[p].items)
       IN /\ ProductFree(p, i)
          /\ product' = IF product[i].exists THEN [product EXCEPT ![i].stock = @ + d] ELSE product
          /\ warehouse_stocks' = [k \in WsKeys |-> ReadStock(p, k)]
          /\ tx' = [tx EXCEPT ![p].ws = NoTx.ws, ![p].product = NoTx.product]
          /\ proc' = IF Direct(p)
                      THEN [proc EXCEPT ![p] = [Idle EXCEPT !.pc = "done", !.op = proc[p].op, !.id = i,
                                                             !.quantity = proc[p].quantity,
                                                             !.operation = proc[p].operation,
                                                             !.result = "ok"]]
                      ELSE [proc EXCEPT ![p].wh = NULL,
                                        ![p].idx = IF last THEN @ ELSE @ + 1,
                                        ![p].pc = IF last THEN "uos_commit"
                                                  ELSE IF Decreasing(p) THEN "uos_check" ELSE "uws_select"]
    /\ UNCHANGED <<warehouses, orders, stock_transfers>>

\* productRepo.CheckWarehouseStock called on its own: the answer is what the caller gets.
CheckWarehouseStock_Call(p, i, q) ==
    /\ Ready(p)
    /\ \E r \in CheckWarehouseStock(i, q) :
          proc' = [proc EXCEPT ![p] = [Idle EXCEPT !.pc = "done", !.op = "CheckWarehouseStock", !.id = i,
                                                    !.quantity = q, !.wh = r.WarehouseID,
                                                    !.AvailableStock = r.AvailableStock,
                                                    !.result = IF r.ok THEN "ok" ELSE "insufficient"]]
    /\ UNCHANGED <<dbVars, tx>>

\* productRepo.UpdateWarehouseStock called on its own: Begin, and the switch on operation,
\* whose default branch returns InvalidOperationError.
UpdateWarehouseStock_Begin(p, i, q, operation) ==
    /\ Ready(p)
    /\ Bounded
    /\ LET call == [Idle EXCEPT !.op = "UpdateWarehouseStock", !.id = i, !.quantity = q,
                                !.operation = operation]
       IN proc' = [proc EXCEPT ![p] =
                      IF operation \in {"decrease", "increase"}
                      THEN [call EXCEPT !.pc = "uws_select", !.idx = 1,
                                        !.items = <<[product_id |-> i, quantity |-> q]>>]
                      ELSE [call EXCEPT !.pc = "done", !.result = "invalid_operation"]]
    /\ UNCHANGED <<dbVars, tx>>

\* tx.Commit of the order's transaction: the new status becomes visible.
UpdateOrderStatus_Commit(p) ==
    /\ proc[p].pc = "uos_commit"
    /\ orders' = [o \in Orders |-> ReadOrder(p, o)]
    /\ Return(p, "ok")
    /\ UNCHANGED <<product, warehouses, warehouse_stocks, stock_transfers>>

\* ------------------------------------------------ stock added by a worker
\* warehouseRepo.AddStock as the transaction it is: Begin and
\* SELECT EXISTS(SELECT 1 FROM warehouse_stocks WHERE warehouse_id = $1 AND product_id = $2)
AddStock_Begin(p, w, i, q) ==
    /\ Ready(p)
    /\ Bounded
    /\ product[i].exists
    /\ proc' = [proc EXCEPT ![p] = [Idle EXCEPT !.op = "AddStock", !.pc = "as_write", !.wh = w, !.id = i,
                                                 !.quantity = q,
                                                 !.found = warehouse_stocks[<<w, i>>].exists]]
    /\ UNCHANGED <<dbVars, tx>>

\* The UPDATE computed from the row as it was without waiting for the row's lock.
AddStock_WriteUnlocked(p) ==
    /\ proc[p].pc = "as_write"
    /\ LET k == <<proc[p].wh, proc[p].id>>
           row == warehouse_stocks[k]
       IN IF proc[p].found
          THEN /\ tx' = IF row.exists
                        THEN [tx EXCEPT ![p].ws[k] = Written([row EXCEPT !.quantity = @ + proc[p].quantity])]
                        ELSE tx
               /\ proc' = [proc EXCEPT ![p].pc = "as_commit", ![p].found = FALSE]
          ELSE IF row.exists
               THEN Return(p, "error")
               ELSE /\ tx' = [tx EXCEPT ![p].ws[k] =
                                 Written([exists |-> TRUE, quantity |-> proc[p].quantity, reserved_quantity |-> 0])]
                    /\ proc' = [proc EXCEPT ![p].pc = "as_commit", ![p].found = FALSE]
    /\ UNCHANGED dbVars

\* UPDATE warehouse_stocks SET quantity = quantity + $1 WHERE warehouse_id = $2 AND
\* product_id = $3 when the row was found, INSERT INTO warehouse_stocks otherwise; either
\* statement waits for the lock of the row, and an INSERT of a key committed meanwhile
\* violates the unique (warehouse_id, product_id) key, as an INSERT for a warehouse that
\* is gone violates the reference to warehouses.
AddStock_Write(p) ==
    /\ proc[p].pc = "as_write"
    /\ LET k == <<proc[p].wh, proc[p].id>>
           row == warehouse_stocks[k]
       IN /\ StockFree(p, k)
          /\ IF proc[p].found
             THEN /\ tx' = IF row.exists
                           THEN [tx EXCEPT ![p].ws[k] = Written([row EXCEPT !.quantity = @ + proc[p].quantity])]
                           ELSE tx
                  /\ proc' = [proc EXCEPT ![p].pc = "as_commit", ![p].found = FALSE]
             ELSE IF row.exists \/ ~warehouses[proc[p].wh].exists
                  THEN Return(p, "error")
                  ELSE /\ tx' = [tx EXCEPT ![p].ws[k] =
                                    Written([exists |-> TRUE, quantity |-> proc[p].quantity, reserved_quantity |-> 0])]
                       /\ proc' = [proc EXCEPT ![p].pc = "as_commit", ![p].found = FALSE]
    /\ UNCHANGED dbVars

\* return tx.Commit(...)
AddStock_Commit(p) ==
    /\ proc[p].pc = "as_commit"
    /\ warehouse_stocks' = [k \in WsKeys |-> ReadStock(p, k)]
    /\ proc' = [proc EXCEPT ![p] = [Idle EXCEPT !.pc = "done", !.op = proc[p].op, !.wh = proc[p].wh,
                                                 !.id = proc[p].id, !.quantity = proc[p].quantity,
                                                 !.result = "ok"]]
    /\ tx' = [tx EXCEPT ![p] = NoTx]
    /\ UNCHANGED <<product, warehouses, orders, stock_transfers>>

\* handler.UpdateOrderStatus: the HTTP status for what the repository returned;
\* pgx.ErrNoRows is answered 404, any other error 500.
UpdateOrderStatus_Response(r) == IF r = "ok" THEN 200 ELSE IF r = "not_found" THEN 404 ELSE 500

\* ------------------------------------------- order status, single stock counter
\* orderRepo.UpdateOrderStatus of the single counter implementation: the same SELECT
\* status ... WHERE id = $1 AND user_id = $2 and the same early return.
UpdateOrderStatusSingle_Select(p, o, u, s) ==
    /\ Ready(p)
    /\ Bounded
    /\ LET call == [Idle EXCEPT !.op = "UpdateOrderStatusSingle", !.id = o, !.user = u, !.status = s]
       IN IF ~orders[o].exists \/ orders[o].user_id # u
          THEN proc' = [proc EXCEPT ![p] = [call EXCEPT !.pc = "done", !.result = "not_found"]]
          ELSE IF orders[o].status = s
               THEN proc' = [proc EXCEPT ![p] = [call EXCEPT !.pc = "done", !.result = "ok"]]
               ELSE proc' = [proc EXCEPT ![p] = [call EXCEPT !.pc = "uos_update", !.cur = orders[o].status]]
    /\ UNCHANGED <<dbVars, tx>>

\* SELECT stock FROM products WHERE id = $1 in the order's transaction; on the way into
\* 'confirmed', currentStock < item.Quantity returns pgx.ErrNoRows.
UpdateOrderStatusSingle_Stock(p) ==
    /\ proc[p].pc = "uoss_stock"
    /\ LET row == ReadProduct(p, Item(p).product_id)
       IN IF ~row.exists \/ (Decreasing(p) /\ row.stock < Item(p).quantity)
          THEN Return(p, "not_found")
          ELSE /\ proc' = [proc EXCEPT ![p].pc = "uoss_update"]
               /\ UNCHANGED tx
    /\ UNCHANGED dbVars

\* UPDATE products SET stock = stock -/+ $1 WHERE id = $2, then the next item.
UpdateOrderStatusSingle_Update(p) ==
    /\ proc[p].pc = "uoss_update"
    /\ LET i == Item(p).product_id
           row == ReadProduct(p, i)
           d == IF Decreasing(p) THEN -Item(p).quantity ELSE Item(p).quantity
           last == proc[p].idx = Len(proc[p].items)
       IN /\ ProductFree(p, i)
          /\ tx' = IF row.exists THEN [tx EXCEPT ![p].product[i] = Written([row EXCEPT !.stock = @ + d])]
                   ELSE tx
          /\ proc' = [proc EXCEPT ![p].idx = IF last THEN @ ELSE @ + 1,
                                  ![p].pc = IF last THEN "uoss_commit" ELSE "uoss_stock"]
    /\ UNCHANGED dbVars

\* tx.Commit: the status and the stock counters become visible together.
UpdateOrderStatusSingle_Commit(p) ==
    /\ proc[p].pc = "uoss_commit"
    /\ orders' = [o \in Orders |-> ReadOrder(p, o)]
    /\ product' = [i \in Products |-> ReadProduct(p, i)]
    /\ Return(p, "ok")
    /\ UNCHANGED <<warehouses, warehouse_stocks, stock_transfers>>

\* --------------------------------------------------- warehouse administration
\* warehouseRepo.DeleteWarehouse counting every stock row of the warehouse, whatever its quantity.
DeleteWarehouse_CountRows(p, w) ==
    /\ proc[p].pc = "idle"
    /\ LET call == [Idle EXCEPT !.op = "DeleteWarehouse", !.id = w]
           stockCount == Cardinality({i \in Products : warehouse_stocks[<<w, i>>].exists})
       IN proc' = [proc EXCEPT ![p] = IF stockCount > 0
                                      THEN [call EXCEPT !.pc = "done", !.result = "has_stock"]
                                      ELSE [call EXCEPT !.pc = "dw_delete"]]
    /\ UNCHANGED <<dbVars, tx>>

\* warehouseRepo.DeleteWarehouse: SELECT COUNT(*) FROM warehouse_stocks WHERE warehouse_id = $1
\* AND quantity > 0, and WarehouseHasStockError when the count is positive.
DeleteWarehouse_Count(p, w) ==
    /\ proc[p].pc = "idle"
    /\ LET call == [Idle EXCEPT !.op = "DeleteWarehouse", !.id = w]
           stockCount == Cardinality({i \in Products : /\ warehouse_stocks[<<w, i>>].exists
                                                      /\ warehouse_stocks[<<w, i>>].quantity > 0})
       IN proc' = [proc EXCEPT ![p] = IF stockCount > 0
                                      THEN [call EXCEPT !.pc = "done", !.result = "has_stock"]
                                      ELSE [call EXCEPT !.pc = "dw_delete"]]
    /\ UNCHANGED <<dbVars, tx>>

\* What the deletion of warehouse w leaves of the stock rows: the rows of w go with it.
RowsWithout(ws, w) == [k \in WsKeys |-> IF k[1] = w THEN NoStock ELSE ws[k]]

\* DELETE FROM warehouses WHERE id = $1; pgx.ErrNoRows when no row was affected.  The
\* statement waits for the open transactions that wrote a stock row of the warehouse.
DeleteWarehouse_Delete(p) ==
    /\ proc[p].pc = "dw_delete"
    /\ LET w == proc[p].id
       IN IF ~warehouses[w].exists
          THEN /\ Return(p, "not_found")
               /\ UNCHANGED dbVars
          ELSE /\ \A i \in Products : StockFree(p, <<w, i>>)
               /\ warehouses' = [warehouses EXCEPT ![w].exists = FALSE]
               /\ warehouse_stocks' = RowsWithout(warehouse_stocks, w)
               /\ Return(p, "ok")
               /\ UNCHANGED <<product, orders, stock_transfers>>

\* --------------------------------------------------------- order deletion
\* A deletion that gives the stock of a confirmed order back to the home warehouse.
DeleteOrder_Restoring(p, o, u) ==
    /\ Ready(p)
    /\ LET call == [Idle EXCEPT !.op = "DeleteOrder", !.id = o, !.user = u, !.pc = "done"]
           i == orders[o].items[1].product_id
           q == orders[o].items[1].quantity
       IN IF ~orders[o].exists \/ orders[o].user_id # u
          THEN /\ proc' = [proc EXCEPT ![p] = [call EXCEPT !.result = "not_found"]]
               /\ UNCHANGED dbVars
          ELSE /\ orders' = [orders EXCEPT ![o] = NoOrder]
               /\ product' = IF orders[o].status = "confirmed"
                             THEN [product EXCEPT ![i].stock = @ + q] ELSE product
               /\ proc' = [proc EXCEPT ![p] = [call EXCEPT !.result = "ok"]]
               /\ UNCHANGED <<warehouses, warehouse_stocks, stock_transfers>>
    /\ UNCHANGED tx

\* A deletion that does not look at the owner of the order.
DeleteOrder_AnyUser(p, o, u) ==
    /\ Ready(p)
    /\ LET call == [Idle EXCEPT !.op = "DeleteOrder", !.id = o, !.user = u, !.pc = "done"]
       IN IF ~orders[o].exists
          THEN /\ proc' = [proc EXCEPT ![p] = [call EXCEPT !.result = "not_found"]]
               /\ UNCHANGED dbVars
          ELSE /\ orders' = [orders EXCEPT ![o] = NoOrder]
               /\ proc' = [proc EXCEPT ![p] = [call EXCEPT !.result = "ok"]]
               /\ UNCHANGED <<product, warehouses, warehouse_stocks, stock_transfers>>
    /\ UNCHANGED tx

\* orderRepo.DeleteOrder: DELETE FROM orders WHERE id = $1 AND user_id = $2 through the
\* pool (the order's items go with it, ON DELETE CASCADE); pgx.ErrNoRows when no row
\* was affected.
DeleteOrder(p, o, u) ==
    /\ Ready(p)
    /\ LET call == [Idle EXCEPT !.op = "DeleteOrder", !.id = o, !.user = u, !.pc = "done"]
       IN IF ~orders[o].exists \/ orders[o].user_id # u
          THEN /\ proc' = [proc EXCEPT ![p] = [call EXCEPT !.result = "not_found"]]
               /\ UNCHANGED dbVars
          ELSE /\ orders' = [orders EXCEPT ![o] = NoOrder]
               /\ proc' = [proc EXCEPT ![p] = [call EXCEPT !.result = "ok"]]
               /\ UNCHANGED <<product, warehouses, warehouse_stocks, stock_transfers>>
    /\ UNCHANGED tx

\* ------------------------------------------------------- product deletion
\* SELECT DISTINCT order_id FROM order_items WHERE product_id = $1
OrdersWith(os, i) == {o \in Orders : os[o].exists /\ \E n \in DOMAIN os[o].items : os[o].items[n].product_id = i}

\* DELETE FROM order_items WHERE product_id = $1
WithoutItemsOf(os, i) ==
    [o \in Orders |-> [os[o] EXCEPT !.items = SelectSeq(@, LAMBDA it : it.product_id # i)]]

\* The cascade deleting every order that had an item of the product.
DeleteProduct_AllOrders(p, i) ==
    /\ Ready(p)
    /\ LET call == [Idle EXCEPT !.op = "DeleteProduct", !.id = i, !.pc = "done"]
           orderIDs == OrdersWith(orders, i)
       IN IF ~product[i].exists
          THEN /\ proc' = [proc EXCEPT ![p] = [call EXCEPT !.result = "not_found"]]
               /\ UNCHANGED dbVars
          ELSE /\ orders' = [o \in Orders |-> IF o \in orderIDs THEN NoOrder ELSE orders[o]]
               /\ warehouse_stocks' = [k \in WsKeys |-> IF k[2] = i THEN NoStock ELSE warehouse_stocks[k]]
               /\ product' = [product EXCEPT ![i] = NoProduct]
               /\ proc' = [proc EXCEPT ![p] = [call EXCEPT !.result = "ok"]]
               /\ UNCHANGED <<warehouses, stock_transfers>>
    /\ UNCHANGED tx

\* productRepo.DeleteProduct, one transaction run to its end: the orders holding the
\* product are collected, its order items deleted, each collected order deleted when
\* COUNT(*) of its items is 0, then the product's stock rows and the product; when the
\* DELETE of the product affects no row, pgx.ErrNoRows is returned and nothing is committed.
DeleteProduct(p, i) ==
    /\ Ready(p)
    /\ LET call == [Idle EXCEPT !.op = "DeleteProduct", !.id = i, !.pc = "done"]
           orderIDs == OrdersWith(orders, i)
           items == WithoutItemsOf(orders, i)
       IN IF ~product[i].exists
          THEN /\ proc' = [proc EXCEPT ![p] = [call EXCEPT !.result = "not_found"]]
               /\ UNCHANGED dbVars
          ELSE /\ orders' = [o \in Orders |-> IF o \in orderIDs /\ Len(items[o].items) = 0
                                              THEN NoOrder ELSE items[o]]
               /\ warehouse_stocks' = [k \in WsKeys |-> IF k[2] = i THEN NoStock ELSE warehouse_stocks[k]]
               /\ product' = [product EXCEPT ![i] = NoProduct]
               /\ proc' = [proc EXCEPT ![p] = [call EXCEPT !.result = "ok"]]
               /\ UNCHANGED <<warehouses, stock_transfers>>
    /\ UNCHANGED tx

\* ------------------------------------------------------------ order reading
\* orderRepo.GetOrderItems: the item rows of the order joined with their products; the
\* query selects no price, so Price keeps the zero value of its type.
GetOrderItems(o) ==
    LET rows == SelectSeq(orders[o].items, LAMBDA it : product[it.product_id].exists)
    IN [n \in DOMAIN rows |-> [product_id |-> rows[n].product_id, quantity |-> rows[n].quantity, price |-> 0]]

\* ---------------------------------------------------------- order creation
\* models.OrderItem as CreateOrder builds it: the requested item and the price just read.
OrderItem(it, productPrice) == [product_id |-> it.product_id, quantity |-> it.quantity, price |-> productPrice]

\* The id the orders sequence hands out next, within the modelled ids.
NextOrderID == CHOOSE o \in Orders : ~orders[o].exists /\ \A n \in Orders : ~orders[n].exists => o <= n

\* handler.CreateOrder, which answers 400 to an empty item list, and the Begin of
\* orderRepo.CreateOrder with the warehouse ledger.
CreateOrder_Begin(p, u, items) ==
    /\ Ready(p)
    /\ \E o \in Orders : ~orders[o].exists
    /\ LET call == [Idle EXCEPT !.op = "CreateOrder", !.user = u, !.items = items]
       IN proc' = [proc EXCEPT ![p] = IF items = <<>>
                                      THEN [call EXCEPT !.pc = "done", !.result = "invalid"]
                                      ELSE [call EXCEPT !.idx = 1, !.pc = "co_check"]]
    /\ UNCHANGED <<dbVars, tx>>

\* First loop: productRepo.CheckWarehouseStock(item.ProductID, item.Quantity), through the pool.
CreateOrder_CheckStock(p) ==
    /\ proc[p].pc = "co_check"
    /\ \E r \in CheckWarehouseStock(Item(p).product_id, Item(p).quantity) :
          IF r.ok
          THEN /\ proc' = [proc EXCEPT ![p].pc = "co_product"]
               /\ UNCHANGED tx
          ELSE Return(p, "insufficient")
    /\ UNCHANGED dbVars

\* First loop: SELECT price, name, description FROM products WHERE id = $1
CreateOrder_Product(p) ==
    /\ proc[p].pc = "co_product"
    /\ LET last == proc[p].idx = Len(proc[p].items)
       IN IF ~ReadProduct(p, Item(p).product_id).exists
          THEN Return(p, "not_found")
          ELSE /\ proc' = [proc EXCEPT ![p].idx = IF last THEN 1 ELSE @ + 1,
                                       ![p].pc = IF last THEN "co_insert" ELSE "co_check"]
               /\ UNCHANGED tx
    /\ UNCHANGED dbVars

\* orderRepo.CreateOrder with the single stock counter: Begin.
CreateOrderSingle_Begin(p, u, items) ==
    /\ Ready(p)
    /\ \E o \in Orders : ~orders[o].exists
    /\ LET call == [Idle EXCEPT !.op = "CreateOrderSingle", !.user = u, !.items = items]
       IN proc' = [proc EXCEPT ![p] = IF items = <<>>
                                      THEN [call EXCEPT !.pc = "done", !.result = "invalid"]
                                      ELSE [call EXCEPT !.idx = 1, !.pc = "co_insert"]]
    /\ UNCHANGED <<dbVars, tx>>

\* INSERT INTO orders (user_id, total_amount) VALUES ($1, 0) RETURNING id; status takes
\* the column's default, 'pending'.
CreateOrder_Insert(p) ==
    /\ proc[p].pc = "co_insert"
    /\ tx' = [tx EXCEPT ![p].orders[NextOrderID] =
                 Written([exists |-> TRUE, user_id |-> proc[p].user, total_amount |-> 0,
                          status |-> "pending", items |-> <<>>])]
    /\ proc' = [proc EXCEPT ![p].id = NextOrderID,
                            ![p].pc = IF proc[p].op = "CreateOrder" THEN "co_item" ELSE "cos_item"]
    /\ UNCHANGED dbVars

\* Second loop of the warehouse implementation: SELECT the product again, INSERT INTO order_items.
CreateOrder_Item(p) ==
    /\ proc[p].pc = "co_item"
    /\ LET o == proc[p].id
           last == proc[p].idx = Len(proc[p].items)
           productPrice == ReadProduct(p, Item(p).product_id).price
       IN IF ~ReadProduct(p, Item(p).product_id).exists
          THEN Return(p, "not_found")
          ELSE /\ tx' = [tx EXCEPT ![p].orders[o] = Written([ReadOrder(p, o) EXCEPT !.items = Append(@, Item(p))])]
               /\ proc' = [proc EXCEPT ![p].idx = IF last THEN @ ELSE @ + 1,
                                       ![p].orderItems = Append(@, OrderItem(Item(p), productPrice)),
                                       ![p].totalAmount = @ + Item(p).quantity * productPrice,
                                       ![p].pc = IF last THEN "co_commit" ELSE "co_item"]
    /\ UNCHANGED dbVars

\* Loop of the single counter implementation: SELECT price, name, description, stock FROM
\* products, the comparison of stock with the item's quantity, INSERT INTO order_items.
CreateOrderSingle_Item(p) ==
    /\ proc[p].pc = "cos_item"
    /\ LET o == proc[p].id
           pr == ReadProduct(p, Item(p).product_id)
           last == proc[p].idx = Len(proc[p].items)
       IN IF ~pr.exists
          THEN Return(p, "not_found")
          ELSE IF pr.stock < Item(p).quantity
               THEN Return(p, "insufficient")
               ELSE /\ tx' = [tx EXCEPT ![p].orders[o] =
                                 Written([ReadOrder(p, o) EXCEPT !.items = Append(@, Item(p))])]
                    /\ proc' = [proc EXCEPT ![p].idx = IF last THEN @ ELSE @ + 1,
                                            ![p].orderItems = Append(@, OrderItem(Item(p), pr.price)),
                                            ![p].totalAmount = @ + Item(p).quantity * pr.price,
                                            ![p].pc = IF last THEN "co_commit" ELSE "cos_item"]
    /\ UNCHANGED dbVars

\* A creation that takes the quantity of its first item out of the product's stock.
CreateOrder_CommitTaking(p) ==
    /\ proc[p].pc = "co_commit"
    /\ orders' = [o \in Orders |-> IF o = proc[p].id
                                    THEN [ReadOrder(p, o) EXCEPT !.total_amount = proc[p].totalAmount]
                                    ELSE ReadOrder(p, o)]
    /\ product' = [product EXCEPT ![proc[p].items[1].product_id].stock = @ - proc[p].items[1].quantity]
    /\ proc' = [proc EXCEPT ![p] = [Idle EXCEPT !.pc = "done", !.op = proc[p].op, !.id = proc[p].id,
                                                 !.user = proc[p].user, !.items = proc[p].items,
                                                 !.totalAmount = proc[p].totalAmount,
                                                 !.orderItems = proc[p].orderItems, !.result = "ok"]]
    /\ tx' = [tx EXCEPT ![p] = NoTx]
    /\ UNCHANGED <<warehouses, warehouse_stocks, stock_transfers>>

\* An order whose total is left as the INSERT set it.
CreateOrder_CommitWithoutTotal(p) ==
    /\ proc[p].pc = "co_commit"
    /\ orders' = [o \in Orders |-> ReadOrder(p, o)]
    /\ proc' = [proc EXCEPT ![p] = [Idle EXCEPT !.pc = "done", !.op = proc[p].op, !.id = proc[p].id,
                                                 !.user = proc[p].user, !.items = proc[p].items,
                                                 !.totalAmount = proc[p].totalAmount,
                                                 !.orderItems = proc[p].orderItems, !.result = "ok"]]
    /\ tx' = [tx EXCEPT ![p] = NoTx]
    /\ UNCHANGED <<product, warehouses, warehouse_stocks, stock_transfers>>

\* UPDATE orders SET total_amount = $1 WHERE id = $2, tx.Commit, and the OrderWithItems
\* returned: the total and the items with the prices read in the loop.
CreateOrder_Commit(p) ==
    /\ proc[p].pc = "co_commit"
    /\ orders' = [o \in Orders |-> IF o = proc[p].id
                                    THEN [ReadOrder(p, o) EXCEPT !.total_amount = proc[p].totalAmount]
                                    ELSE ReadOrder(p, o)]
    /\ proc' = [proc EXCEPT ![p] = [Idle EXCEPT !.pc = "done", !.op = proc[p].op, !.id = proc[p].id,
                                                 !.user = proc[p].user, !.items = proc[p].items,
                                                 !.totalAmount = proc[p].totalAmount,
                                                 !.orderItems = proc[p].orderItems, !.result = "ok"]]
    /\ tx' = [tx EXCEPT ![p] = NoTx]
    /\ UNCHANGED <<product, warehouses, warehouse_stocks, stock_transfers>>

\* A failing statement that leaves the rows written so far in the table.
CreateOrder_FailsKeepingWrites(p) ==
    /\ proc[p].pc \in {"co_item", "cos_item", "co_commit"}
    /\ orders' = [o \in Orders |-> ReadOrder(p, o)]
    /\ Return(p, "error")
    /\ UNCHANGED <<product, warehouses, warehouse_stocks, stock_transfers>>

\* A statement after the INSERT of the order fails (an INSERT INTO order_items, the UPDATE
\* of the total, the Commit): the error is returned and the deferred Rollback runs.
CreateOrder_Fails(p) ==
    /\ proc[p].pc \in {"co_item", "cos_item", "co_commit"}
    /\ Return(p, "error")
    /\ UNCHANGED dbVars

\* ------------------------------------------------------------- transfers
Terminal(s) == s \in {"completed", "failed", "cancelled"}
Transfer(p) == ReadTransfer(p, proc[p].id)
Processing(p) == \/ proc[p].op = "ProcessTransfer"
                 \/ (proc[p].op = "UpdateTransferStatus" /\ proc[p].status = "completed" /\ proc[p].cur = "pending")

\* The id the stock_transfers sequence hands out next, within the modelled ids.
NextTransferID ==
    CHOOSE t \in Transfers : ~stock_transfers[t].exists /\ \A n \in Transfers : ~stock_transfers[n].exists => t <= n

\* The columns the INSERT of a transfer does not set: the table's defaults.
TransferDefaults == [status |-> "pending", completed_at |-> FALSE]

\* A creation that also books the quantity into the destination's stock row.
CreateStockTransfer_Booking(p, f, t, i, q) ==
    /\ Ready(p)
    /\ Bounded
    /\ \E n \in Transfers : ~stock_transfers[n].exists
    /\ product[i].exists
    /\ stock_transfers' = [stock_transfers EXCEPT ![NextTransferID] =
          [exists |-> TRUE, from_warehouse_id |-> f, to_warehouse_id |-> t, product_id |-> i,
           quantity |-> q, status |-> TransferDefaults.status,
           completed_at |-> TransferDefaults.completed_at]]
    /\ warehouse_stocks' = IF t # NULL THEN Upsert(warehouse_stocks, <<t, i>>, q) ELSE warehouse_stocks
    /\ proc' = [proc EXCEPT ![p] = [Idle EXCEPT !.pc = "done", !.op = "CreateStockTransfer",
                                                 !.id = NextTransferID, !.quantity = q, !.result = "ok"]]
    /\ UNCHANGED <<product, warehouses, orders, tx>>

\* handler.CreateStockTransfer and warehouseRepo.CreateStockTransfer: one INSERT INTO
\* stock_transfers through the pool, for an existing product; the request's warehouses
\* are pointers and may both be nil.
CreateStockTransfer(p, f, t, i, q) ==
    /\ Ready(p)
    /\ Bounded
    /\ \E n \in Transfers : ~stock_transfers[n].exists
    /\ product[i].exists
    /\ stock_transfers' = [stock_transfers EXCEPT ![NextTransferID] =
          [exists |-> TRUE, from_warehouse_id |-> f, to_warehouse_id |-> t, product_id |-> i,
           quantity |-> q, status |-> TransferDefaults.status,
           completed_at |-> TransferDefaults.completed_at]]
    /\ proc' = [proc EXCEPT ![p] = [Idle EXCEPT !.pc = "done", !.op = "CreateStockTransfer",
                                                 !.id = NextTransferID, !.quantity = q, !.result = "ok"]]
    /\ UNCHANGED <<product, warehouses, warehouse_stocks, orders, tx>>

\* warehouseRepo.UpdateTransferStatus, SELECT status FROM stock_transfers WHERE id = $1,
\* and the early commit when the transfer already has the requested status.
UpdateTransferStatus_Select(p, t, s) ==
    /\ Ready(p)
    /\ Bounded
    /\ LET call == [Idle EXCEPT !.op = "UpdateTransferStatus", !.id = t, !.status = s]
       IN IF ~stock_transfers[t].exists
          THEN proc' = [proc EXCEPT ![p] = [call EXCEPT !.pc = "done", !.result = "not_found"]]
          ELSE IF stock_transfers[t].status = s
               THEN proc' = [proc EXCEPT ![p] = [call EXCEPT !.pc = "done", !.result = "ok"]]
               ELSE proc' = [proc EXCEPT ![p] = [call EXCEPT !.pc = "uts_update", !.cur = stock_transfers[t].status]]
    /\ UNCHANGED <<dbVars, tx>>

\* The status UPDATE with completed_at = now for every status.
UpdateTransferStatus_UpdateStamped(p) ==
    /\ proc[p].pc = "uts_update"
    /\ TransferFree(p, proc[p].id)
    /\ LET t == proc[p].id
           s == proc[p].status
       IN IF ~stock_transfers[t].exists
          THEN Return(p, "not_found")
          ELSE /\ tx' = [tx EXCEPT ![p].transfers[t] =
                            Written([stock_transfers[t] EXCEPT !.status = s, !.completed_at = TRUE])]
               /\ proc' = [proc EXCEPT ![p].pc = IF s = "completed" /\ proc[p].cur = "pending"
                                                 THEN "tr_source" ELSE "tr_commit"]
    /\ UNCHANGED dbVars

\* UPDATE stock_transfers SET status = $1, completed_at = $2 WHERE id = $3; when the new
\* status is completed and the status read before was pending, the transfer is then read
\* back FOR UPDATE (the row is this transaction's own) and processed.
UpdateTransferStatus_Update(p) ==
    /\ proc[p].pc = "uts_update"
    /\ TransferFree(p, proc[p].id)
    /\ LET t == proc[p].id
           s == proc[p].status
       IN IF ~stock_transfers[t].exists
          THEN Return(p, "not_found")
          ELSE /\ tx' = [tx EXCEPT ![p].transfers[t] =
                            Written([stock_transfers[t] EXCEPT !.status = s, !.completed_at = Terminal(s)])]
               /\ proc' = [proc EXCEPT ![p].pc = IF s = "completed" /\ proc[p].cur = "pending"
                                                 THEN "tr_source" ELSE "tr_commit"]
    /\ UNCHANGED dbVars

\* ProcessTransfer without the check that the transfer is pending.
ProcessTransfer_LockAnyStatus(p, t) ==
    /\ Ready(p)
    /\ Bounded
    /\ TransferFree(p, t)
    /\ LET call == [Idle EXCEPT !.op = "ProcessTransfer", !.id = t]
       IN IF ~stock_transfers[t].exists
          THEN /\ proc' = [proc EXCEPT ![p] = [call EXCEPT !.pc = "done", !.result = "not_found"]]
               /\ UNCHANGED tx
          ELSE /\ proc' = [proc EXCEPT ![p] = [call EXCEPT !.pc = "tr_source", !.cur = "pending"]]
               /\ tx' = [tx EXCEPT ![p].transfers[t] = Written(stock_transfers[t])]
    /\ UNCHANGED dbVars

\* warehouseRepo.ProcessTransfer, SELECT ... FROM stock_transfers WHERE id = $1 FOR UPDATE,
\* and the rejection of a transfer that is not pending.
ProcessTransfer_Lock(p, t) ==
    /\ Ready(p)
    /\ Bounded
    /\ TransferFree(p, t)
    /\ LET call == [Idle EXCEPT !.op = "ProcessTransfer", !.id = t]
       IN IF ~stock_transfers[t].exists
          THEN /\ proc' = [proc EXCEPT ![p] = [call EXCEPT !.pc = "done", !.result = "not_found"]]
               /\ UNCHANGED tx
          ELSE IF stock_transfers[t].status # "pending"
               THEN /\ proc' = [proc EXCEPT ![p] = [call EXCEPT !.pc = "done", !.result = "not_pending"]]
                    /\ UNCHANGED tx
               ELSE /\ proc' = [proc EXCEPT ![p] = [call EXCEPT !.pc = "tr_source", !.cur = "pending"]]
                    /\ tx' = [tx EXCEPT ![p].transfers[t] = Written(stock_transfers[t])]
    /\ UNCHANGED dbVars

\* The source side without the comparison of the row's quantity with the transfer's.
Transfer_SourceUnchecked(p) ==
    /\ proc[p].pc = "tr_source"
    /\ LET tr == Transfer(p)
           k == <<tr.from_warehouse_id, tr.product_id>>
       IN IF tr.from_warehouse_id = NULL
          THEN /\ proc' = [proc EXCEPT ![p].pc = "tr_dest"]
               /\ UNCHANGED tx
          ELSE /\ warehouse_stocks[k].exists => StockFree(p, k)
               /\ IF ~warehouse_stocks[k].exists
                  THEN Return(p, "insufficient")
                  ELSE /\ tx' = [tx EXCEPT ![p].ws[k] =
                                    Written([warehouse_stocks[k] EXCEPT !.quantity = @ - tr.quantity])]
                       /\ proc' = [proc EXCEPT ![p].pc = "tr_source_product"]
    /\ UNCHANGED dbVars

\* Source side: SELECT quantity ... FOR UPDATE on the source stock row, the InsufficientStock
\* checks, and UPDATE warehouse_stocks SET quantity = quantity - $1 on the row just locked.
Transfer_Source(p) ==
    /\ proc[p].pc = "tr_source"
    /\ LET tr == Transfer(p)
           k == <<tr.from_warehouse_id, tr.product_id>>
       IN IF tr.from_warehouse_id = NULL
          THEN /\ proc' = [proc EXCEPT ![p].pc = "tr_dest"]
               /\ UNCHANGED tx
          ELSE /\ warehouse_stocks[k].exists => StockFree(p, k)
               /\ IF ~warehouse_stocks[k].exists \/ warehouse_stocks[k].quantity < tr.quantity
                  THEN Return(p, "insufficient")
                  ELSE /\ tx' = [tx EXCEPT ![p].ws[k] =
                                    Written([warehouse_stocks[k] EXCEPT !.quantity = @ - tr.quantity])]
                       /\ proc' = [proc EXCEPT ![p].pc = "tr_source_product"]
    /\ UNCHANGED dbVars

\* UPDATE products SET stock = stock - $1 WHERE id = $2
Transfer_SourceProduct(p) ==
    /\ proc[p].pc = "tr_source_product"
    /\ LET i == Transfer(p).product_id
       IN /\ ProductFree(p, i)
          /\ tx' = IF product[i].exists
                   THEN [tx EXCEPT ![p].product[i] = Written([product[i] EXCEPT !.stock = @ - Transfer(p).quantity])]
                   ELSE tx
    /\ proc' = [proc EXCEPT ![p].pc = "tr_dest"]
    /\ UNCHANGED dbVars

\* Destination side: SELECT EXISTS(SELECT 1 FROM warehouse_stocks WHERE ...)
Transfer_DestExists(p) ==
    /\ proc[p].pc = "tr_dest"
    /\ LET tr == Transfer(p)
       IN IF tr.to_warehouse_id = NULL
          THEN proc' = [proc EXCEPT ![p].pc = "tr_commit"]
          ELSE proc' = [proc EXCEPT ![p].pc = "tr_dest_write",
                                    ![p].found = ReadStock(p, <<tr.to_warehouse_id, tr.product_id>>).exists]
    /\ UNCHANGED <<dbVars, tx>>

\* UPDATE warehouse_stocks SET quantity = quantity + $1, or INSERT INTO warehouse_stocks
\* when the row was not found; an INSERT of a key that has been committed meanwhile
\* violates the unique (warehouse_id, product_id) key.
Transfer_DestWrite(p) ==
    /\ proc[p].pc = "tr_dest_write"
    /\ LET tr == Transfer(p)
           k == <<tr.to_warehouse_id, tr.product_id>>
           row == ReadStock(p, k)
       IN /\ StockFree(p, k)
          /\ IF proc[p].found
             THEN /\ tx' = IF row.exists
                           THEN [tx EXCEPT ![p].ws[k] = Written([row EXCEPT !.quantity = @ + tr.quantity])]
                           ELSE tx
                  /\ proc' = [proc EXCEPT ![p].pc = "tr_dest_product", ![p].found = FALSE]
             ELSE IF row.exists
                  THEN Return(p, "error")
                  ELSE /\ tx' = [tx EXCEPT ![p].ws[k] =
                                    Written([exists |-> TRUE, quantity |-> tr.quantity, reserved_quantity |-> 0])]
                       /\ proc' = [proc EXCEPT ![p].pc = "tr_dest_product", ![p].found = FALSE]
    /\ UNCHANGED dbVars

\* The destination side without its update of the product's stock counter.
Transfer_DestProductSkipped(p) ==
    /\ proc[p].pc = "tr_dest_product"
    /\ ProductFree(p, Transfer(p).product_id)
    /\ proc' = [proc EXCEPT ![p].pc = "tr_commit"]
    /\ UNCHANGED <<dbVars, tx>>

\* UPDATE products SET stock = stock + $1 WHERE id = $2
Transfer_DestProduct(p) ==
    /\ proc[p].pc = "tr_dest_product"
    /\ LET i == Transfer(p).product_id
           row == ReadProduct(p, i)
       IN /\ ProductFree(p, i)
          /\ tx' = IF row.exists
                   THEN [tx EXCEPT ![p].product[i] = Written([row EXCEPT !.stock = @ + Transfer(p).quantity])]
                   ELSE tx
    /\ proc' = [proc EXCEPT ![p].pc = "tr_commit"]
    /\ UNCHANGED dbVars

\* ProcessTransfer: UPDATE stock_transfers SET status = 'completed', completed_at = $1,
\* then tx.Commit; UpdateTransferStatus: tx.Commit (its status write came first).
Transfer_Commit(p) ==
    /\ proc[p].pc = "tr_commit"
    /\ LET t == proc[p].id
           tr == IF proc[p].op = "ProcessTransfer"
                 THEN [Transfer(p) EXCEPT !.status = "completed", !.completed_at = TRUE]
                 ELSE Transfer(p)
       IN stock_transfers' = [stock_transfers EXCEPT ![t] = tr]
    /\ warehouse_stocks' = [k \in WsKeys |-> ReadStock(p, k)]
    /\ product' = [i \in Products |-> ReadProduct(p, i)]
    /\ Return(p, "ok")
    /\ UNCHANGED <<warehouses, orders>>

\* The failure path without the rollback: the stock rows written so far are kept.
Transfer_FailsKeepingWrites(p) ==
    /\ proc[p].pc \in {"tr_dest_write", "tr_commit"}
    /\ Return(p, "error")
    /\ warehouse_stocks' = [k \in WsKeys |-> ReadStock(p, k)]
    /\ UNCHANGED <<product, warehouses, orders, stock_transfers>>

\* The destination-side write (if err != nil after the UPDATE or INSERT) or the final
\* status write and commit returns an error: the call returns it and the deferred
\* tx.Rollback drops the writes made so far.
Transfer_Fails(p) ==
    /\ proc[p].pc \in {"tr_dest_write", "tr_commit"}
    /\ Return(p, "error")
    /\ UNCHANGED dbVars

\* ------------------------------------------------------- initial states
\* The tables as earlier calls leave them: CreateProduct(s, w) has made a product with
\* its home stock row, CreateOrder a pending order whose items each passed the stock
\* check, CreateStockTransfer a pending transfer.
\* Every modelled warehouse has been created.
Built == [w \in Warehouses |-> [exists |-> TRUE]]
\* The price of the products the tables start with.
ListPrice == 1
Created(s, w) == [exists |-> TRUE, price |-> ListPrice, stock |-> s, warehouse_id |-> w]
StockRow(q) == [exists |-> TRUE, quantity |-> q, reserved_quantity |-> 0]
HomeRows(pr) == [k \in WsKeys |-> IF pr[k[2]].exists /\ pr[k[2]].warehouse_id = k[1]
                                     THEN StockRow(pr[k[2]].stock) ELSE NoStock]

OrderItems(pr) == {[product_id |-> i, quantity |-> q] : i \in {j \in Products : pr[j].exists}, q \in 1..MaxQty}
ItemLists(pr) ==
    {l \in UNION {[1..n -> OrderItems(pr)] : n \in 1..MaxItems} :
        \A n \in DOMAIN l : l[n].quantity <= pr[l[n].product_id].stock}
\* An order as CreateOrder leaves it when every product has the list price.
RECURSIVE Quantities(_)
Quantities(l) == IF l = <<>> THEN 0 ELSE Head(l).quantity + Quantities(Tail(l))
PendingOrder(u, l) == [exists |-> TRUE, user_id |-> u, total_amount |-> ListPrice * Quantities(l),
                       status |-> "pending", items |-> l]
PendingTransfer(f, t, i, q) ==
    [exists |-> TRUE, from_warehouse_id |-> f, to_warehouse_id |-> t, product_id |-> i,
     quantity |-> q, status |-> "pending", completed_at |-> FALSE]

InitWorkers ==
    /\ proc = [p \in Procs |-> Idle]
    /\ tx = [p \in Procs |-> NoTx]
    /\ held = [o \in Orders |-> 0]
    /\ applied = [t \in Transfers |-> 0]
    /\ receipt = [o \in Orders |-> NoReceipt]
    /\ ledger = [k \in WsKeys |-> NoDeltas]
    /\ pre = NoSnapshot
    /\ prev = NoPrev

\* One product in its home warehouse, and one pending order for it.
Init ==
    /\ warehouses = Built
    /\ \E s \in 1..MaxQty : product = [i \in Products |-> IF i = 1 THEN Created(s, 1) ELSE NoProduct]
    /\ warehouse_stocks = HomeRows(product)
    /\ \E l \in ItemLists(product) :
          orders = [o \in Orders |-> IF o = 1 THEN PendingOrder(1, l) ELSE NoOrder]
    /\ stock_transfers = [x \in Transfers |-> NoTransfer]
    /\ InitWorkers

\* ------------------------------------------------------ one client at a time
Client == CHOOSE p \in Procs : \A r \in Procs : p <= r

WasConfirmation ==
    /\ proc[Client].op = "UpdateOrderStatus"
    /\ proc[Client].status = "confirmed"
    /\ proc[Client].result = "ok"
    /\ pre.orders[proc[Client].id].status # "confirmed"

\* A call of the client begins: remember the tables it starts from.
Begins ==
    /\ pre' = Snapshot
    /\ UNCHANGED prev

\* The handler has answered: the client is free for its next call.  A successful
\* confirmation is remembered, with the tables it started from, for the call after it.
Returned ==
    /\ proc[Client].pc = "done"
    /\ proc' = [proc EXCEPT ![Client] = Idle]
    /\ prev' = IF WasConfirmation
               THEN [valid |-> TRUE, order |-> proc[Client].id, product |-> pre.product,
                     warehouse_stocks |-> pre.warehouse_stocks]
               ELSE NoPrev
    /\ pre' = NoSnapshot
    /\ UNCHANGED <<dbVars, tx, held, applied, receipt, ledger>>

\* An administrative call, run to its commit.
Admin(A) ==
    /\ proc[Client].pc = "idle"
    /\ A
    /\ Bounded'
    /\ prev' = NoPrev
    /\ UNCHANGED <<proc, tx, held, applied, pre, receipt, ledger>>

OrderStep(p) ==
    \/ UpdateOrderStatus_Update(p)
    \/ UpdateOrderStatus_GetOrderItems(p)
    \/ UpdateOrderStatus_CheckStock(p)
    \/ UpdateWarehouseStock_Select(p)
    \/ UpdateWarehouseStock_Stock(p)
    \/ UpdateWarehouseStock_Commit(p)
    \/ UpdateOrderStatus_Commit(p)

TransferStep(p) ==
    \/ UpdateTransferStatus_Update(p)
    \/ Transfer_Source(p)
    \/ Transfer_SourceProduct(p)
    \/ Transfer_DestExists(p)
    \/ Transfer_DestWrite(p)
    \/ Transfer_DestProduct(p)
    \/ Transfer_Commit(p)
    \/ Transfer_Fails(p)

\* The product and stock administration and the order status calls of one client.
Next ==
    \/ \E i \in Products, s \in 0..MaxQty, w \in Warehouses : Admin(UpdateProduct(i, product[i].price, s, w))
    \/ \E w \in Warehouses, i \in Products, q \in 0..MaxQty : Admin(UpdateStock(w, i, q))
    \/ \E w \in Warehouses, i \in Products, q \in 0..MaxQty : Admin(AddStock(w, i, q))
    \/ \E o \in Orders, u \in Users, s \in OrderStatuses :
          UpdateOrderStatus_Select(Client, o, u, s) /\ Begins /\ UNCHANGED <<held, applied, receipt, ledger>>
    \/ OrderStep(Client) /\ UNCHANGED <<pre, prev, held, applied, receipt, ledger>>
    \/ Returned

Spec == Init /\ [][Next]_vars

\* ------------------------------------------- transfers, one client at a time
\* One product with stock in its home warehouse, possibly a stock row in the other
\* warehouse (as AddStock or UpdateStock leave it), and one pending transfer.
InitTransfers ==
    /\ warehouses = Built
    /\ \E s \in 1..MaxQty : product = [i \in Products |-> IF i = 1 THEN Created(s, 1) ELSE NoProduct]
    /\ \E r \in {NoStock} \cup {StockRow(q) : q \in 0..MaxQty} :
          warehouse_stocks = [HomeRows(product) EXCEPT ![<<2, 1>>] = r]
    /\ orders = [o \in Orders |-> NoOrder]
    /\ \E f \in Warehouses \cup {NULL}, t \in Warehouses \cup {NULL}, q \in 1..MaxQty :
          stock_transfers = [x \in Transfers |-> IF x = 1 THEN PendingTransfer(f, t, 1, q) ELSE NoTransfer]
    /\ InitWorkers

\* The transfer's quantity has been applied once more when a processing commits.
Applies(p) ==
    applied' = IF proc[p].pc = "tr_commit" /\ Processing(p) /\ applied[proc[p].id] <= 1
               THEN [applied EXCEPT ![proc[p].id] = @ + 1]
               ELSE applied

NextTransfers ==
    \/ \E t \in Transfers, s \in TransferStatuses :
          UpdateTransferStatus_Select(Client, t, s) /\ Begins /\ UNCHANGED <<held, applied, receipt, ledger>>
    \/ \E t \in Transfers : ProcessTransfer_Lock(Client, t) /\ Begins /\ UNCHANGED <<held, applied, receipt, ledger>>
    \/ TransferStep(Client) /\ Applies(Client) /\ UNCHANGED <<pre, prev, held, receipt, ledger>>
    \/ Returned

SpecTransfers == InitTransfers /\ [][NextTransfers]_vars

\* ------------------------------------------------- concurrent order requests
\* Two pending orders of one user for one product; every worker serves one request.
InitConcOrders ==
    /\ warehouses = Built
    /\ \E s \in 1..MaxQty : product = [i \in Products |-> IF i = 1 THEN Created(s, 1) ELSE NoProduct]
    /\ warehouse_stocks = HomeRows(product)
    /\ \E l1 \in ItemLists(product), l2 \in ItemLists(product) :
          orders = [o \in Orders |-> IF o = 1 THEN PendingOrder(1, l1)
                                     ELSE IF o = 2 THEN PendingOrder(1, l2) ELSE NoOrder]
    /\ stock_transfers = [x \in Transfers |-> NoTransfer]
    /\ proc = [p \in Procs |-> Idle]
    /\ tx = [p \in Procs |-> NoTx]
    /\ held = [o \in Orders |-> 0]
    /\ applied = [t \in Transfers |-> 0]
    /\ receipt = [o \in Orders |-> NoReceipt]
    /\ ledger = [k \in WsKeys |-> NoDeltas]
    /\ pre = Snapshot
    /\ prev = NoPrev

\* The ledger transaction of worker p commits an item's quantity for its order.
Holds(p) ==
    held' = IF proc[p].pc = "uws_product"
            THEN [held EXCEPT ![proc[p].id] = IF Decreasing(p) THEN @ + Item(p).quantity
                                              ELSE @ - Item(p).quantity]
            ELSE held

NextConcOrders ==
    \/ \E p \in Procs, o \in Orders, u \in Users, s \in OrderStatuses :
          UpdateOrderStatus_Select(p, o, u, s) /\ UNCHANGED <<held, applied, pre, prev, receipt, ledger>>
    \/ \E p \in Procs : OrderStep(p) /\ Holds(p) /\ UNCHANGED <<applied, pre, prev, receipt, ledger>>

SpecConcOrders == InitConcOrders /\ [][NextConcOrders]_vars

\* ---------------------------------------------- concurrent transfer requests
InitConcTransfers ==
    /\ warehouses = Built
    /\ \E s \in 1..MaxQty : product = [i \in Products |-> IF i = 1 THEN Created(s, 1) ELSE NoProduct]
    /\ \E r \in {NoStock} \cup {StockRow(q) : q \in 0..MaxQty} :
          warehouse_stocks = [HomeRows(product) EXCEPT ![<<2, 1>>] = r]
    /\ orders = [o \in Orders |-> NoOrder]
    /\ \E f \in Warehouses \cup {NULL}, t \in Warehouses \cup {NULL}, q \in 1..MaxQty :
          stock_transfers = [x \in Transfers |-> IF x = 1 THEN PendingTransfer(f, t, 1, q) ELSE NoTransfer]
    /\ proc = [p \in Procs |-> Idle]
    /\ tx = [p \in Procs |-> NoTx]
    /\ held = [o \in Orders |-> 0]
    /\ applied = [t \in Transfers |-> 0]
    /\ receipt = [o \in Orders |-> NoReceipt]
    /\ ledger = [k \in WsKeys |-> NoDeltas]
    /\ pre = Snapshot
    /\ prev = NoPrev

NextConcTransfers ==
    \/ \E p \in Procs, t \in Transfers, s \in TransferStatuses :
          UpdateTransferStatus_Select(p, t, s) /\ UNCHANGED <<held, applied, pre, prev, receipt, ledger>>
    \/ \E p \in Procs, t \in Transfers :
          ProcessTransfer_Lock(p, t) /\ UNCHANGED <<held, applied, pre, prev, receipt, ledger>>
    \/ \E p \in Procs : TransferStep(p) /\ Applies(p) /\ UNCHANGED <<held, pre, prev, receipt, ledger>>

SpecConcTransfers == InitConcTransfers /\ [][NextConcTransfers]_vars

\* ------------------------------------ order and transfer status, one client
\* One product, a pending order for it and a pending transfer of it.
InitStatus ==
    /\ warehouses = Built
    /\ \E s \in 1..MaxQty : product = [i \in Products |-> IF i = 1 THEN Created(s, 1) ELSE NoProduct]
    /\ warehouse_stocks = HomeRows(product)
    /\ \E l \in ItemLists(product) :
          orders = [o \in Orders |-> IF o = 1 THEN PendingOrder(1, l) ELSE NoOrder]
    /\ \E f \in Warehouses \cup {NULL}, t \in Warehouses \cup {NULL}, q \in 1..MaxQty :
          stock_transfers = [x \in Transfers |-> IF x = 1 THEN PendingTransfer(f, t, 1, q) ELSE NoTransfer]
    /\ InitWorkers

NextStatus ==
    \/ \E o \in Orders, u \in Users, s \in OrderStatuses :
          UpdateOrderStatus_Select(Client, o, u, s) /\ Begins /\ UNCHANGED <<held, applied, receipt, ledger>>
    \/ OrderStep(Client) /\ UNCHANGED <<pre, prev, held, applied, receipt, ledger>>
    \/ \E t \in Transfers, s \in TransferStatuses :
          UpdateTransferStatus_Select(Client, t, s) /\ Begins /\ UNCHANGED <<held, applied, receipt, ledger>>
    \/ TransferStep(Client) /\ UNCHANGED <<pre, prev, held, applied, receipt, ledger>>
    \/ Returned

SpecStatus == InitStatus /\ [][NextStatus]_vars

\* ------------------------------------------------ the stock ledger, called directly
\* One product with a stock row in its home warehouse and possibly one in the other
\* warehouse; part of a row's quantity may be reserved.  Product 2 does not exist.
Operations == {"decrease", "increase", "reserve"}
ReservedRows == {[exists |-> TRUE, quantity |-> q, reserved_quantity |-> r] : q \in 0..MaxQty, r \in 0..MaxQty}
InitLedger ==
    /\ warehouses = Built
    /\ \E s \in 0..MaxQty : product = [i \in Products |-> IF i = 1 THEN Created(s, 1) ELSE NoProduct]
    /\ \E home \in ReservedRows, other \in ReservedRows \cup {NoStock} :
          /\ Available(home) >= 0
          /\ Available(other) >= 0
          /\ warehouse_stocks = [k \in WsKeys |-> IF k = <<1, 1>> THEN home
                                                  ELSE IF k = <<2, 1>> THEN other ELSE NoStock]
    /\ orders = [o \in Orders |-> NoOrder]
    /\ stock_transfers = [x \in Transfers |-> NoTransfer]
    /\ InitWorkers

LedgerStep(p) ==
    \/ UpdateWarehouseStock_Select(p)
    \/ UpdateWarehouseStock_Stock(p)
    \/ UpdateWarehouseStock_Commit(p)

NextLedger ==
    \/ \E i \in Products, q \in 1..MaxQty :
          CheckWarehouseStock_Call(Client, i, q) /\ Begins /\ UNCHANGED <<held, applied, receipt, ledger>>
    \/ \E i \in Products, q \in 1..MaxQty, operation \in Operations :
          UpdateWarehouseStock_Begin(Client, i, q, operation) /\ Begins /\ UNCHANGED <<held, applied, receipt, ledger>>
    \/ LedgerStep(Client) /\ UNCHANGED <<pre, prev, held, applied, receipt, ledger>>
    \/ Returned

SpecLedger == InitLedger /\ [][NextLedger]_vars

\* ------------------------------------------------------------ order creation
\* One product with stock in its home warehouse and possibly a stock row in the other
\* warehouse; product 2 does not exist.  No order yet.
RequestedItems == {[product_id |-> i, quantity |-> q] : i \in Products, q \in 1..MaxQty}
Requests == UNION {[1..n -> RequestedItems] : n \in 0..MaxItems}

InitCreate ==
    /\ warehouses = Built
    /\ \E s \in 0..MaxQty : product = [i \in Products |-> IF i = 1 THEN Created(s, 1) ELSE NoProduct]
    /\ \E r \in {NoStock} \cup {StockRow(q) : q \in 0..MaxQty} :
          warehouse_stocks = [HomeRows(product) EXCEPT ![<<2, 1>>] = r]
    /\ orders = [o \in Orders |-> NoOrder]
    /\ stock_transfers = [x \in Transfers |-> NoTransfer]
    /\ InitWorkers

CreateStep(p) ==
    \/ CreateOrder_CheckStock(p)
    \/ CreateOrder_Product(p)
    \/ CreateOrder_Insert(p)
    \/ CreateOrder_Item(p)
    \/ CreateOrderSingle_Item(p)
    \/ CreateOrder_Commit(p)
    \/ CreateOrder_Fails(p)

NextCreate ==
    \/ \E u \in Users, items \in Requests :
          CreateOrder_Begin(Client, u, items) /\ Begins /\ UNCHANGED <<held, applied, receipt, ledger>>
    \/ \E u \in Users, items \in Requests :
          CreateOrderSingle_Begin(Client, u, items) /\ Begins /\ UNCHANGED <<held, applied, receipt, ledger>>
    \/ CreateStep(Client) /\ UNCHANGED <<pre, prev, held, applied, receipt, ledger>>
    \/ Returned

SpecCreate == InitCreate /\ [][NextCreate]_vars

\* --------------------------------------------- order creation, any request
\* Requests for the existing product as a client can send them: the item list may be
\* empty, a quantity may be zero or negative.
AnyQuantity == -1..MaxQty
AnyRequests == UNION {[1..n -> {[product_id |-> 1, quantity |-> q] : q \in AnyQuantity}] : n \in 0..MaxItems}

NextAnyCreate ==
    \/ \E u \in Users, items \in AnyRequests :
          CreateOrder_Begin(Client, u, items) /\ Begins /\ UNCHANGED <<held, applied, receipt, ledger>>
    \/ \E u \in Users, items \in AnyRequests :
          CreateOrderSingle_Begin(Client, u, items) /\ Begins /\ UNCHANGED <<held, applied, receipt, ledger>>
    \/ CreateStep(Client) /\ UNCHANGED <<pre, prev, held, applied, receipt, ledger>>
    \/ Returned

SpecAnyCreate == InitCreate /\ [][NextAnyCreate]_vars

\* ------------------------------------------------ transfers from their creation
\* One product with stock in its home warehouse, possibly a stock row in the other
\* warehouse, and no transfer yet.
InitNewTransfers ==
    /\ warehouses = Built
    /\ \E s \in 1..MaxQty : product = [i \in Products |-> IF i = 1 THEN Created(s, 1) ELSE NoProduct]
    /\ \E r \in {NoStock} \cup {StockRow(q) : q \in 0..MaxQty} :
          warehouse_stocks = [HomeRows(product) EXCEPT ![<<2, 1>>] = r]
    /\ orders = [o \in Orders |-> NoOrder]
    /\ stock_transfers = [x \in Transfers |-> NoTransfer]
    /\ InitWorkers

NextNewTransfers ==
    \/ \E f \in Warehouses \cup {NULL}, t \in Warehouses \cup {NULL}, i \in Products, q \in 1..MaxQty :
          /\ \E n \in 1..MaxCreated : ~stock_transfers[n].exists
          /\ CreateStockTransfer(Client, f, t, i, q) /\ Begins /\ UNCHANGED <<held, applied, receipt, ledger>>
    \/ \E t \in Transfers, s \in TransferStatuses :
          UpdateTransferStatus_Select(Client, t, s) /\ Begins /\ UNCHANGED <<held, applied, receipt, ledger>>
    \/ \E t \in Transfers : ProcessTransfer_Lock(Client, t) /\ Begins /\ UNCHANGED <<held, applied, receipt, ledger>>
    \/ TransferStep(Client) /\ Applies(Client) /\ UNCHANGED <<pre, prev, held, receipt, ledger>>
    \/ Returned

SpecNewTransfers == InitNewTransfers /\ [][NextNewTransfers]_vars

\* --------------------------------------------- transfers of any quantity
\* Transfer requests as a client can send them: the quantity may be zero or negative.
NextAnyTransfers ==
    \/ \E f \in Warehouses \cup {NULL}, t \in Warehouses \cup {NULL}, i \in Products, q \in AnyQuantity :
          /\ \E n \in 1..MaxCreated : ~stock_transfers[n].exists
          /\ CreateStockTransfer(Client, f, t, i, q) /\ Begins /\ UNCHANGED <<held, applied, receipt, ledger>>
    \/ \E t \in Transfers, s \in TransferStatuses :
          UpdateTransferStatus_Select(Client, t, s) /\ Begins /\ UNCHANGED <<held, applied, receipt, ledger>>
    \/ \E t \in Transfers : ProcessTransfer_Lock(Client, t) /\ Begins /\ UNCHANGED <<held, applied, receipt, ledger>>
    \/ TransferStep(Client) /\ Applies(Client) /\ UNCHANGED <<pre, prev, held, receipt, ledger>>
    \/ Returned

SpecAnyTransfers == InitNewTransfers /\ [][NextAnyTransfers]_vars

\* -------------------------------------------------- warehouse administration
\* One product with stock in its home warehouse and possibly a stock row in the other.
InitWarehouses ==
    /\ warehouses = Built
    /\ \E s \in 0..MaxQty : product = [i \in Products |-> IF i = 1 THEN Created(s, 1) ELSE NoProduct]
    /\ \E r \in {NoStock} \cup {StockRow(q) : q \in 0..MaxQty} :
          warehouse_stocks = [HomeRows(product) EXCEPT ![<<2, 1>>] = r]
    /\ orders = [o \in Orders |-> NoOrder]
    /\ stock_transfers = [x \in Transfers |-> NoTransfer]
    /\ InitWorkers

Standing == {w \in Warehouses : warehouses[w].exists}

NextWarehouses ==
    \/ \E w \in Standing, i \in Products, q \in 0..MaxQty : Admin(UpdateStock(w, i, q))
    \/ \E w \in Standing, i \in Products, q \in 0..MaxQty : Admin(AddStock(w, i, q))
    \/ \E w \in Warehouses :
          DeleteWarehouse_Count(Client, w) /\ Begins /\ UNCHANGED <<held, applied, receipt, ledger>>
    \/ DeleteWarehouse_Delete(Client) /\ UNCHANGED <<pre, prev, held, applied, receipt, ledger>>
    \/ Returned

SpecWarehouses == InitWarehouses /\ [][NextWarehouses]_vars

\* ------------------------------------------------------------ product deletion
\* Product 1, possibly product 2, each in its home warehouse, and up to two orders of any
\* status with items of these products.
InitCatalog ==
    /\ warehouses = Built
    /\ \E s \in 1..MaxQty, r \in {NoProduct} \cup {Created(q, 2) : q \in 1..MaxQty} :
          product = [i \in Products |-> IF i = 1 THEN Created(s, 1) ELSE r]
    /\ warehouse_stocks = HomeRows(product)
    /\ \E a \in {NoOrder} \cup {[PendingOrder(1, l) EXCEPT !.status = st] : l \in ItemLists(product), st \in OrderStatuses},
          b \in {NoOrder} \cup {PendingOrder(2, l) : l \in ItemLists(product)} :
          orders = [o \in Orders |-> IF o = 1 THEN a ELSE b]
    /\ stock_transfers = [x \in Transfers |-> NoTransfer]
    /\ InitWorkers

NextCatalog ==
    \/ \E i \in Products : DeleteProduct(Client, i) /\ Begins /\ UNCHANGED <<held, applied, receipt, ledger>>
    \/ Returned

SpecCatalog == InitCatalog /\ [][NextCatalog]_vars

\* --------------------------------------------- the orders of a user, one client
\* The status changes and the deletion of orders, called by the owner or by another user.
NextOrders ==
    \/ \E o \in Orders, u \in Users, s \in OrderStatuses :
          UpdateOrderStatus_Select(Client, o, u, s) /\ Begins /\ UNCHANGED <<held, applied, receipt, ledger>>
    \/ OrderStep(Client) /\ UNCHANGED <<pre, prev, held, applied, receipt, ledger>>
    \/ \E o \in Orders, u \in Users : DeleteOrder(Client, o, u) /\ Begins /\ UNCHANGED <<held, applied, receipt, ledger>>
    \/ Returned

SpecOrders == Init /\ [][NextOrders]_vars

\* ------------------------------------------------------ orders and prices
\* Two products with prices of their own and stock in their home warehouses; no order yet.
Prices == 1..MaxPrice
InitPrices ==
    /\ warehouses = Built
    /\ \E s \in 1..MaxQty, p1 \in Prices, p2 \in Prices :
          product = [i \in Products |-> IF i = 1 THEN [Created(s, 1) EXCEPT !.price = p1]
                                        ELSE [Created(s, 2) EXCEPT !.price = p2]]
    /\ warehouse_stocks = HomeRows(product)
    /\ orders = [o \in Orders |-> NoOrder]
    /\ stock_transfers = [x \in Transfers |-> NoTransfer]
    /\ InitWorkers

\* CreateOrder has returned an order to its caller.
Receives(p) ==
    receipt' = IF proc'[p].pc = "done" /\ proc'[p].result = "ok"
               THEN [receipt EXCEPT ![proc'[p].id] = [valid |-> TRUE, total_amount |-> proc'[p].totalAmount,
                                                      items |-> proc'[p].orderItems]]
               ELSE receipt

NextPrices ==
    \/ \E u \in Users, items \in Requests :
          CreateOrder_Begin(Client, u, items) /\ Begins /\ UNCHANGED <<held, applied, receipt, ledger>>
    \/ CreateStep(Client) /\ Receives(Client) /\ UNCHANGED <<pre, prev, held, applied, ledger>>
    \/ \E i \in Products, pr \in Prices :
          Admin(UpdateProduct(i, pr, product[i].stock, product[i].warehouse_id))
    \/ Returned

SpecPrices == InitPrices /\ [][NextPrices]_vars

\* ------------------------------------------ concurrent changes of the ledger
\* One product with stock in its home warehouse and possibly a row in the other one, an
\* order of it that is pending or confirmed, and a pending transfer of it; every worker
\* serves one request.
InitConcLedger ==
    /\ warehouses = Built
    /\ \E s \in 1..MaxQty : product = [i \in Products |-> IF i = 1 THEN Created(s, 1) ELSE NoProduct]
    /\ \E r \in {NoStock, StockRow(0)} :
          warehouse_stocks = [HomeRows(product) EXCEPT ![<<2, 1>>] = r]
    /\ \E l \in ItemLists(product), st \in {"pending", "confirmed"} :
          orders = [o \in Orders |-> IF o = 1 THEN [PendingOrder(1, l) EXCEPT !.status = st] ELSE NoOrder]
    /\ \E f \in Warehouses \cup {NULL}, t \in Warehouses \cup {NULL}, q \in 1..MaxQty :
          stock_transfers = [x \in Transfers |-> IF x = 1 THEN PendingTransfer(f, t, 1, q) ELSE NoTransfer]
    /\ proc = [p \in Procs |-> Idle]
    /\ tx = [p \in Procs |-> NoTx]
    /\ held = [o \in Orders |-> 0]
    /\ applied = [t \in Transfers |-> 0]
    /\ receipt = [o \in Orders |-> NoReceipt]
    /\ ledger = [k \in WsKeys |-> NoDeltas]
    /\ pre = Snapshot
    /\ prev = NoPrev

AddStockStep(p) ==
    \/ AddStock_Write(p)
    \/ AddStock_Commit(p)

\* What the statements of worker p's open transaction were asked to add to stock row k.
Delta(p, k) ==
    IF proc[p].pc = "uws_product"
    THEN IF k = <<proc[p].wh, Item(p).product_id>>
         THEN IF Decreasing(p) THEN -Item(p).quantity ELSE Item(p).quantity
         ELSE 0
    ELSE IF proc[p].pc = "tr_commit"
    THEN LET tr == Transfer(p)
         IN (IF tr.from_warehouse_id # NULL /\ k = <<tr.from_warehouse_id, tr.product_id>> THEN -tr.quantity ELSE 0)
            + (IF tr.to_warehouse_id # NULL /\ k = <<tr.to_warehouse_id, tr.product_id>> THEN tr.quantity ELSE 0)
    ELSE IF proc[p].pc = "as_commit" /\ k = <<proc[p].wh, proc[p].id>>
    THEN proc[p].quantity
    ELSE 0

\* Worker p is at a statement that writes stock row k.
Writing(p, k) ==
    \/ proc[p].pc = "uws_stock" /\ k = <<proc[p].wh, Item(p).product_id>>
    \/ proc[p].pc = "as_write" /\ k = <<proc[p].wh, proc[p].id>>
    \/ proc[p].pc = "tr_source" /\ k = <<Transfer(p).from_warehouse_id, Transfer(p).product_id>>
    \/ proc[p].pc = "tr_dest_write" /\ k = <<Transfer(p).to_warehouse_id, Transfer(p).product_id>>

\* The transaction of worker p that wrote stock row k commits in this step.
Committing(p, k) ==
    /\ tx[p].ws[k].locked
    /\ \/ proc[p].pc = "uws_product"
       \/ proc[p].pc \in {"tr_commit", "as_commit"} /\ proc'[p].result = "ok"

Commits(p) ==
    ledger' = [k \in WsKeys |->
                  IF Committing(p, k)
                  THEN [delta |-> ledger[k].delta + Delta(p, k),
                        commits |-> ledger[k].commits + 1,
                        waited |-> ledger[k].waited \/ \E q \in Procs \ {p} : Writing(q, k)]
                  ELSE ledger[k]]

NextConcLedger ==
    \/ \E p \in Procs, w \in Warehouses, i \in Products, q \in 1..MaxQty :
          AddStock_Begin(p, w, i, q) /\ UNCHANGED <<held, applied, pre, prev, receipt, ledger>>
    \/ \E p \in Procs, o \in Orders, u \in Users, s \in {"confirmed", "cancelled"} :
          UpdateOrderStatus_Select(p, o, u, s) /\ UNCHANGED <<held, applied, pre, prev, receipt, ledger>>
    \/ \E p \in Procs, t \in Transfers :
          ProcessTransfer_Lock(p, t) /\ UNCHANGED <<held, applied, pre, prev, receipt, ledger>>
    \/ \E p \in Procs : AddStockStep(p) /\ Commits(p) /\ UNCHANGED <<held, applied, pre, prev, receipt>>
    \/ \E p \in Procs : OrderStep(p) /\ Holds(p) /\ Commits(p) /\ UNCHANGED <<applied, pre, prev, receipt>>
    \/ \E p \in Procs : TransferStep(p) /\ Applies(p) /\ Commits(p) /\ UNCHANGED <<held, pre, prev, receipt>>

SpecConcLedger == InitConcLedger /\ [][NextConcLedger]_vars

\* ------------------------------------------- the life of orders, one client
\* Two products, each with all its stock in its home warehouse; product 1 may have a
\* further row in the other warehouse.  A user has a pending order, as CreateOrder
\* leaves it.
InitShop ==
    /\ warehouses = Built
    /\ product = [i \in Products |-> Created(MaxQty, i)]
    /\ \E r \in {NoStock, StockRow(MaxQty)} :
          warehouse_stocks = [HomeRows(product) EXCEPT ![<<2, 1>>] = r]
    /\ \E l \in ItemLists(product) :
          orders = [o \in Orders |-> IF o = 1 THEN PendingOrder(1, l) ELSE NoOrder]
    /\ stock_transfers = [x \in Transfers |-> NoTransfer]
    /\ InitWorkers

SingleStep(p) ==
    \/ UpdateOrderStatusSingle_Stock(p)
    \/ UpdateOrderStatusSingle_Update(p)
    \/ UpdateOrderStatusSingle_Commit(p)

NextShop ==
    \/ \E o \in Orders, u \in Users, s \in OrderStatuses :
          UpdateOrderStatus_Select(Client, o, u, s) /\ Begins /\ UNCHANGED <<held, applied, receipt, ledger>>
    \/ \E o \in Orders, u \in Users, s \in OrderStatuses :
          UpdateOrderStatusSingle_Select(Client, o, u, s) /\ Begins /\ UNCHANGED <<held, applied, receipt, ledger>>
    \/ OrderStep(Client) /\ UNCHANGED <<pre, prev, held, applied, receipt, ledger>>
    \/ SingleStep(Client) /\ UNCHANGED <<pre, prev, held, applied, receipt, ledger>>
    \/ \E o \in Orders, u \in Users : DeleteOrder(Client, o, u) /\ Begins /\ UNCHANGED <<held, applied, receipt, ledger>>
    \/ Returned

SpecShop == InitShop /\ [][NextShop]_vars

\* ------------------------------------------- transfers in opposite directions
\* One product with stock in both warehouses and two pending transfers of it, one from
\* warehouse 1 to warehouse 2 and one back; every worker serves one request.
InitConcOpposite ==
    /\ warehouses = Built
    /\ \E s \in 1..MaxQty : product = [i \in Products |-> IF i = 1 THEN Created(s, 1) ELSE NoProduct]
    /\ \E q \in 1..MaxQty : warehouse_stocks = [HomeRows(product) EXCEPT ![<<2, 1>>] = StockRow(q)]
    /\ orders = [o \in Orders |-> NoOrder]
    /\ \E q1 \in 1..MaxQty, q2 \in 1..MaxQty :
          stock_transfers = [x \in Transfers |-> IF x = 1 THEN PendingTransfer(1, 2, 1, q1)
                                                 ELSE IF x = 2 THEN PendingTransfer(2, 1, 1, q2)
                                                 ELSE NoTransfer]
    /\ proc = [p \in Procs |-> Idle]
    /\ tx = [p \in Procs |-> NoTx]
    /\ held = [o \in Orders |-> 0]
    /\ applied = [t \in Transfers |-> 0]
    /\ receipt = [o \in Orders |-> NoReceipt]
    /\ ledger = [k \in WsKeys |-> NoDeltas]
    /\ pre = Snapshot
    /\ prev = NoPrev

SpecConcOpposite == InitConcOpposite /\ [][NextConcTransfers]_vars

\* ================================================================ properties
\* Quantity of product i in order o, over all of its lines.
RECURSIVE QtyIn(_, _)
QtyIn(items, i) ==
    IF items = <<>> THEN 0
    ELSE (IF Head(items).product_id = i THEN Head(items).quantity ELSE 0) + QtyIn(Tail(items), i)

OrderTotal(o) == SumSet([i \in Products |-> QtyIn(orders[o].items, i)], Products)

Finished(p, op) == proc[p].pc = "done" /\ proc[p].op = op
Confirms(p, o) == Finished(p, "UpdateOrderStatus") /\ proc[p].id = o /\ proc[p].status = "confirmed"

\* Two pending orders for product i whose quantities each fit the initial stock of the
\* product but together exceed it.
Contended(i) ==
    /\ pre.product[i].exists
    /\ QtyIn(pre.orders[1].items, i) <= pre.product[i].stock
    /\ QtyIn(pre.orders[2].items, i) <= pre.product[i].stock
    /\ QtyIn(pre.orders[1].items, i) + QtyIn(pre.orders[2].items, i) > pre.product[i].stock

\* C1: when two such orders are confirmed concurrently by their owner, exactly one of the
\* confirmations commits, and neither the product's stock counter nor any of its
\* warehouse quantities is ever negative.
C1_NoOversell ==
    \A i \in Products :
        Contended(i) =>
            /\ product[i].stock >= 0
            /\ \A w \in Warehouses : warehouse_stocks[<<w, i>>].quantity >= 0
            /\ (/\ Confirms(1, 1) /\ Confirms(2, 2)
                /\ proc[1].user = orders[1].user_id /\ proc[2].user = orders[2].user_id)
               => \E p \in Procs, r \in Procs :
                     p # r /\ proc[p].result = "ok" /\ proc[r].result # "ok"

\* C2: in every committed state, quantity - reserved_quantity >= 0 for every stock row.
C2_AvailableNonNegative ==
    \A k \in WsKeys : warehouse_stocks[k].exists => Available(warehouse_stocks[k]) >= 0

\* C3: in every committed state, Product.stock >= 0 and Product.stock equals the sum of
\* the quantities of the product's rows over all warehouses.
C3_StockIsSumOfRows ==
    \A i \in Products :
        product[i].exists =>
            /\ product[i].stock >= 0
            /\ product[i].stock = SumSet([w \in Warehouses |->
                                            IF warehouse_stocks[<<w, i>>].exists
                                            THEN warehouse_stocks[<<w, i>>].quantity ELSE 0],
                                         Warehouses)

\* C4: confirming an order and then cancelling it, or setting it back to pending, leaves
\* Product.stock and every stock row of the order's products as they were before the
\* confirmation.
C4_ConfirmThenRevertRestores ==
    (/\ Finished(Client, "UpdateOrderStatus")
     /\ prev.valid /\ proc[Client].id = prev.order
     /\ proc[Client].status \in {"cancelled", "pending"}
     /\ proc[Client].result = "ok")
    => \A i \in Products :
          QtyIn(orders[prev.order].items, i) > 0 =>
             /\ product[i].stock = prev.product[i].stock
             /\ \A w \in Warehouses : warehouse_stocks[<<w, i>>] = prev.warehouse_stocks[<<w, i>>]

\* C5: no committed state shows an order's status change without its stock adjustment or
\* the adjustment without the status change: the quantity taken from stock for an order
\* is all of it when the order is confirmed and none of it otherwise.
C5_StatusAndStockTogether ==
    \A o \in Orders :
        orders[o].exists =>
            held[o] = IF orders[o].status = "confirmed" THEN OrderTotal(o) ELSE 0

\* C6: a confirmation that fails for insufficient stock leaves the order's status, every
\* Product.stock and every stock row as they were before the call.
C6_FailedConfirmationChangesNothing ==
    (/\ Finished(Client, "UpdateOrderStatus")
     /\ proc[Client].status = "confirmed"
     /\ proc[Client].result = "insufficient")
    => /\ orders = pre.orders
       /\ product = pre.product
       /\ warehouse_stocks = pre.warehouse_stocks

\* C7: two concurrent confirmations of the same pending order take the order's
\* quantities from stock once, not twice.
C7_SameOrderDecrementedOnce ==
    \A o \in Orders :
        (/\ Confirms(1, o) /\ Confirms(2, o)
         /\ pre.orders[o].exists /\ pre.orders[o].status = "pending")
        => held[o] <= OrderTotal(o)

\* C8: over any interleaving of ProcessTransfer and UpdateTransferStatus calls, the
\* quantity of a transfer that names a source or a destination warehouse is applied to
\* the stock rows at most once.
C8_TransferAppliedAtMostOnce ==
    \A t \in Transfers :
        (/\ stock_transfers[t].exists
         /\ (stock_transfers[t].from_warehouse_id # NULL \/ stock_transfers[t].to_warehouse_id # NULL))
        => applied[t] <= 1

\* C9: a transfer that is completed, failed or cancelled keeps that status forever.
C9_TransferTerminalIsFinal ==
    [][\A t \in Transfers :
          (stock_transfers[t].exists /\ Terminal(stock_transfers[t].status))
          => stock_transfers'[t].status = stock_transfers[t].status]_vars

\* C10: a call on a cancelled order changes neither the order's status nor any stock.
C10_CancelledIsTerminal ==
    (/\ Finished(Client, "UpdateOrderStatus")
     /\ pre.orders[proc[Client].id].exists
     /\ pre.orders[proc[Client].id].status = "cancelled")
    => /\ orders[proc[Client].id].status = "cancelled"
       /\ product = pre.product
       /\ warehouse_stocks = pre.warehouse_stocks

\* A call of the client that processes a transfer has returned.
Processed ==
    /\ proc[Client].pc = "done"
    /\ \/ proc[Client].op = "ProcessTransfer"
       \/ (proc[Client].op = "UpdateTransferStatus" /\ proc[Client].status = "completed")

\* C11: a ProcessTransfer or UpdateTransferStatus(completed) call that fails leaves the
\* stock rows, Product.stock and the transfer (status, completed_at) as they were before
\* the call.
C11_FailedTransferChangesNothing ==
    (Processed /\ proc[Client].result # "ok")
    => /\ warehouse_stocks = pre.warehouse_stocks
       /\ product = pre.product
       /\ stock_transfers = pre.stock_transfers

\* A processing with a source warehouse failed after its source decrement was written.
C11_Witness ==
    /\ Processed
    /\ proc[Client].result = "error"
    /\ pre.stock_transfers[proc[Client].id].status = "pending"
    /\ pre.stock_transfers[proc[Client].id].from_warehouse_id # NULL

\* warehouseRepo.ProcessTransfer(t) run alone on the tables S: what it returns and the
\* tables it leaves.
ProcessTransfer(S, t) ==
    LET tr == S.stock_transfers[t]
        q == tr.quantity
        i == tr.product_id
        from == <<tr.from_warehouse_id, i>>
        to == <<tr.to_warehouse_id, i>>
        unchanged == [product |-> S.product, warehouse_stocks |-> S.warehouse_stocks,
                      stock_transfers |-> S.stock_transfers]
        ws1 == IF tr.from_warehouse_id # NULL
               THEN [S.warehouse_stocks EXCEPT ![from].quantity = @ - q]
               ELSE S.warehouse_stocks
        ws2 == IF tr.to_warehouse_id # NULL THEN Upsert(ws1, to, q) ELSE ws1
        d == (IF tr.to_warehouse_id # NULL THEN q ELSE 0) - (IF tr.from_warehouse_id # NULL THEN q ELSE 0)
    IN IF ~tr.exists THEN [result |-> "not_found"] @@ unchanged
       ELSE IF tr.status # "pending" THEN [result |-> "not_pending"] @@ unchanged
       ELSE IF /\ tr.from_warehouse_id # NULL
               /\ (~S.warehouse_stocks[from].exists \/ S.warehouse_stocks[from].quantity < q)
            THEN [result |-> "insufficient"] @@ unchanged
       ELSE [result |-> "ok",
             product |-> IF S.product[i].exists THEN [S.product EXCEPT ![i].stock = @ + d] ELSE S.product,
             warehouse_stocks |-> ws2,
             stock_transfers |-> [S.stock_transfers EXCEPT ![t].status = "completed", ![t].completed_at = TRUE]]

\* What the client's call returned and the tables it left.
Outcome ==
    [result |-> proc[Client].result, product |-> product, warehouse_stocks |-> warehouse_stocks,
     stock_transfers |-> stock_transfers]

\* C12: ProcessTransfer and UpdateTransferStatus(completed) are equivalent entry points:
\* from the same tables, whatever the status of the transfer (pending, failed or
\* cancelled; a transfer that is already completed is left to C16), each of them returns
\* what ProcessTransfer returns from those tables and leaves the tables it leaves.
C12_EquivalentEntryPoints ==
    (/\ Processed /\ proc[Client].result # "error"
     /\ pre.stock_transfers[proc[Client].id].status # "completed")
    => Outcome = ProcessTransfer(pre, proc[Client].id)

\* C13: ProcessTransfer on a transfer that is not pending is rejected with
\* TransferNotPending and changes no transfer field and no stock quantity.
C13_NonPendingRejected ==
    (/\ Finished(Client, "ProcessTransfer")
     /\ pre.stock_transfers[proc[Client].id].exists
     /\ pre.stock_transfers[proc[Client].id].status # "pending")
    => /\ proc[Client].result = "not_pending"
       /\ stock_transfers = pre.stock_transfers
       /\ warehouse_stocks = pre.warehouse_stocks
       /\ product = pre.product

\* ProcessTransfer has been rejected on a transfer that is completed, failed or cancelled.
C13_Witness ==
    /\ Finished(Client, "ProcessTransfer")
    /\ proc[Client].result = "not_pending"
    /\ Terminal(pre.stock_transfers[proc[Client].id].status)

\* The source stock row of transfer t in the tables S holds less than the transfer moves
\* (a missing row holds nothing).
SourceShort(S, t) ==
    LET tr == S.stock_transfers[t]
        k == <<tr.from_warehouse_id, tr.product_id>>
    IN /\ tr.exists /\ tr.status = "pending" /\ tr.from_warehouse_id # NULL
       /\ (~S.warehouse_stocks[k].exists \/ S.warehouse_stocks[k].quantity < tr.quantity)

\* C14: completing a pending transfer whose source row holds less than the transfer's
\* quantity fails with InsufficientStock and the transfer stays pending, through
\* ProcessTransfer and through UpdateTransferStatus(completed) alike.
C14_InsufficientSource ==
    (Processed /\ SourceShort(pre, proc[Client].id))
    => /\ proc[Client].result = "insufficient"
       /\ stock_transfers[proc[Client].id].status = "pending"

\* UpdateTransferStatus(completed) has failed on a source row that exists but is short.
C14_Witness ==
    /\ Processed /\ SourceShort(pre, proc[Client].id)
    /\ proc[Client].op = "UpdateTransferStatus"
    /\ proc[Client].result = "insufficient"
    /\ pre.warehouse_stocks[<<pre.stock_transfers[proc[Client].id].from_warehouse_id,
                              pre.stock_transfers[proc[Client].id].product_id>>].exists

\* The client has completed transfer t, which was pending when the call began.
Completed(t) ==
    /\ Processed /\ proc[Client].id = t /\ proc[Client].result = "ok"
    /\ pre.stock_transfers[t].exists /\ pre.stock_transfers[t].status = "pending"

\* C15: a successful completion of a pending transfer of quantity q takes q from the
\* source row if a source is set, adds q to the destination row if a destination is set
\* (creating it with q if absent), changes Product.stock by (+q if destination set)
\* - (q if source set), marks the transfer completed with completed_at set, and changes
\* no other stock row, product or transfer field.
C15_CompletionEffect ==
    \A t \in Transfers :
        Completed(t) =>
            LET tr == pre.stock_transfers[t]
                q == tr.quantity
                out(w) == IF tr.from_warehouse_id = w THEN q ELSE 0
                in(w) == IF tr.to_warehouse_id = w THEN q ELSE 0
                was(k) == IF pre.warehouse_stocks[k].exists THEN pre.warehouse_stocks[k].quantity ELSE 0
            IN /\ \A k \in WsKeys :
                    IF k[2] = tr.product_id
                    THEN /\ warehouse_stocks[k].exists = (pre.warehouse_stocks[k].exists \/ tr.to_warehouse_id = k[1])
                         /\ warehouse_stocks[k].quantity = was(k) + in(k[1]) - out(k[1])
                         /\ warehouse_stocks[k].reserved_quantity = pre.warehouse_stocks[k].reserved_quantity
                    ELSE warehouse_stocks[k] = pre.warehouse_stocks[k]
               /\ \A i \in Products :
                    product[i] = IF i = tr.product_id /\ pre.product[i].exists
                                 THEN [pre.product[i] EXCEPT
                                         !.stock = @ + (IF tr.to_warehouse_id # NULL THEN q ELSE 0)
                                                     - (IF tr.from_warehouse_id # NULL THEN q ELSE 0)]
                                 ELSE pre.product[i]
               /\ stock_transfers = [pre.stock_transfers EXCEPT ![t].status = "completed",
                                                                 ![t].completed_at = TRUE]

\* A transfer between two different warehouses has been completed and has created the
\* destination row.
C15_Witness ==
    \E t \in Transfers :
        /\ Completed(t)
        /\ pre.stock_transfers[t].from_warehouse_id # NULL
        /\ pre.stock_transfers[t].to_warehouse_id # NULL
        /\ pre.stock_transfers[t].from_warehouse_id # pre.stock_transfers[t].to_warehouse_id
        /\ ~pre.warehouse_stocks[<<pre.stock_transfers[t].to_warehouse_id, pre.stock_transfers[t].product_id>>].exists

\* The client asked for the status the order or the transfer already had.
SameStatus ==
    /\ proc[Client].pc = "done"
    /\ \/ /\ proc[Client].op = "UpdateOrderStatus"
          /\ pre.orders[proc[Client].id].exists
          /\ pre.orders[proc[Client].id].user_id = proc[Client].user
          /\ pre.orders[proc[Client].id].status = proc[Client].status
       \/ /\ proc[Client].op = "UpdateTransferStatus"
          /\ pre.stock_transfers[proc[Client].id].exists
          /\ pre.stock_transfers[proc[Client].id].status = proc[Client].status

\* C16: setting an order or a transfer to the status it already has returns success and
\* changes nothing: no stock quantity, no status, no completed_at.
C16_SameStatusNoOp ==
    SameStatus => /\ proc[Client].result = "ok"
                  /\ Snapshot = pre

\* A confirmed order has been set to confirmed again.
C16_WitnessOrder ==
    /\ SameStatus /\ proc[Client].op = "UpdateOrderStatus" /\ proc[Client].status = "confirmed"

\* Warehouses whose row of product i shows at least q available in tables S.
Suffices(S, i, q) ==
    {w \in Warehouses : /\ S.product[i].exists
                        /\ S.warehouse_stocks[<<w, i>>].exists
                        /\ Available(S.warehouse_stocks[<<w, i>>]) >= q}

Checked == proc[Client].pc = "done" /\ proc[Client].op = "CheckWarehouseStock"

\* No two stock rows of product i have the same quantity: ORDER BY quantity DESC LIMIT 1
\* has one possible answer.
DistinctQuantities(S, i) ==
    \A v \in Warehouses, w \in Warehouses :
        (v # w /\ S.warehouse_stocks[<<v, i>>].exists /\ S.warehouse_stocks[<<w, i>>].exists)
            => S.warehouse_stocks[<<v, i>>].quantity # S.warehouse_stocks[<<w, i>>].quantity

NoneHolds(S, i, q) == \A w \in Warehouses : S.warehouse_stocks[<<w, i>>].quantity < q

TotalQuantity(S, i) == SumSet([w \in Warehouses |-> S.warehouse_stocks[<<w, i>>].quantity], Warehouses)

LookedUp ==
    /\ proc[Client].pc = "done"
    /\ \/ proc[Client].op = "CheckWarehouseStock"
       \/ proc[Client].op = "UpdateWarehouseStock" /\ proc[Client].operation = "decrease"

\* C18: when no single warehouse holds at least q of a product, CheckWarehouseStock and
\* UpdateWarehouseStock 'decrease' both fail and change nothing, also when the warehouses
\* together hold q or more.
C18_NeverSplits ==
    (LookedUp /\ NoneHolds(pre, proc[Client].id, proc[Client].quantity)) =>
        /\ proc[Client].result # "ok"
        /\ Snapshot = pre

\* A decrease of 2 was asked for while two warehouses held 1 each.
C18_Witness ==
    /\ LookedUp
    /\ proc[Client].op = "UpdateWarehouseStock"
    /\ NoneHolds(pre, proc[Client].id, proc[Client].quantity)
    /\ TotalQuantity(pre, proc[Client].id) >= proc[Client].quantity

Mutated == proc[Client].pc = "done" /\ proc[Client].op = "UpdateWarehouseStock"

\* Between tables S and the committed tables, the quantity of exactly one stock row of
\* product i and the stock of product i have changed by d, and nothing else has.
ChangedTogether(S, i, d) ==
    /\ product[i].exists /\ S.product[i].exists
    /\ product = [S.product EXCEPT ![i].stock = @ + d]
    /\ \E w \in Warehouses :
          /\ S.warehouse_stocks[<<w, i>>].exists
          /\ warehouse_stocks = [S.warehouse_stocks EXCEPT ![<<w, i>>].quantity = @ + d]
    /\ orders = S.orders
    /\ stock_transfers = S.stock_transfers

CreateReturned == proc[Client].pc = "done" /\ Creating(Client)

\* In tables S the requested item cannot be served: its product is unknown, or its stock
\* is insufficient for the implementation called (no single warehouse row with the
\* quantity, or a product counter below it).
ItemFails(S, it, op) ==
    \/ ~S.product[it.product_id].exists
    \/ op = "CreateOrder" /\ SufficientRows(S.warehouse_stocks, it.product_id, it.quantity) = {}
    \/ op = "CreateOrderSingle" /\ S.product[it.product_id].stock < it.quantity

\* C20: CreateOrder is all-or-nothing.  When an item of the request is for an unknown
\* product or for more than the stock, the call fails; after a failed call no order row
\* and no item row has been added; after a successful call exactly one order has been
\* added, it is pending, belongs to the caller and has one item row per requested item.
C20_CreateOrderAllOrNothing ==
    CreateReturned =>
        LET call == proc[Client]
        IN /\ (\E n \in DOMAIN call.items : ItemFails(pre, call.items[n], call.op)) => call.result # "ok"
           /\ call.result # "ok" => Snapshot = pre
           /\ call.result = "ok" =>
                 /\ ~pre.orders[call.id].exists
                 /\ orders = [pre.orders EXCEPT ![call.id] = PendingOrder(call.user, call.items)]
                 /\ product = pre.product
                 /\ warehouse_stocks = pre.warehouse_stocks
                 /\ stock_transfers = pre.stock_transfers

\* The single counter implementation had inserted the order and its first item when the
\* second item turned out to exceed the stock.
C20_Witness ==
    /\ CreateReturned
    /\ proc[Client].op = "CreateOrderSingle"
    /\ proc[Client].result = "insufficient"
    /\ Len(proc[Client].items) = 2
    /\ ~ItemFails(pre, proc[Client].items[1], "CreateOrderSingle")
    /\ ItemFails(pre, proc[Client].items[2], "CreateOrderSingle")

\* The request has no item, or an item with a quantity of zero or less.
Malformed(items) == items = <<>> \/ \E n \in DOMAIN items : items[n].quantity <= 0

\* C21: CreateOrder rejects a request with an empty item list or with an item whose
\* quantity is zero or negative: the call fails, no order is created, no stock changes.
C21_MalformedRejected ==
    (CreateReturned /\ proc[Client].op = "CreateOrder" /\ Malformed(proc[Client].items)) =>
        /\ proc[Client].result # "ok"
        /\ Snapshot = pre

\* C22: a transfer request with neither a source nor a destination warehouse is rejected
\* by CreateStockTransfer: no transfer row without both is ever in the table.
C22_NoNullTransferPersisted ==
    \A t \in Transfers :
        stock_transfers[t].exists =>
            (stock_transfers[t].from_warehouse_id # NULL \/ stock_transfers[t].to_warehouse_id # NULL)

TransferCreated == proc[Client].pc = "done" /\ proc[Client].op = "CreateStockTransfer"

\* C23: CreateStockTransfer adds one transfer row, with the request's quantity, status
\* pending and completed_at unset, and changes no stock row, no product and no other row.
C23_CreatePersistsPending ==
    TransferCreated =>
        LET t == proc[Client].id
        IN /\ ~pre.stock_transfers[t].exists
           /\ stock_transfers[t].exists
           /\ stock_transfers[t].status = "pending"
           /\ ~stock_transfers[t].completed_at
           /\ stock_transfers[t].quantity = proc[Client].quantity
           /\ \A x \in Transfers \ {t} : stock_transfers[x] = pre.stock_transfers[x]
           /\ warehouse_stocks = pre.warehouse_stocks
           /\ product = pre.product
           /\ orders = pre.orders

\* A transfer into warehouse 2 has been created while warehouse 2 had no row of the product.
C23_Witness ==
    /\ TransferCreated
    /\ stock_transfers[proc[Client].id].to_warehouse_id = 2
    /\ ~warehouse_stocks[<<2, stock_transfers[proc[Client].id].product_id>>].exists

WarehouseDeletion == proc[Client].pc = "done" /\ proc[Client].op = "DeleteWarehouse"

\* Stock rows of warehouse w in tables S, and those among them that hold something.
RowsOf(S, w) == {i \in Products : S.warehouse_stocks[<<w, i>>].exists}
StockedRowsOf(S, w) == {i \in RowsOf(S, w) : S.warehouse_stocks[<<w, i>>].quantity > 0}

\* C24: DeleteWarehouse fails with WarehouseHasStockError and deletes nothing whenever a
\* stock row of the warehouse has quantity > 0; when every stock row of the warehouse
\* has quantity 0, it succeeds and the warehouse no longer exists.
C24_DeleteWarehouse ==
    WarehouseDeletion =>
        LET w == proc[Client].id
        IN /\ StockedRowsOf(pre, w) # {} => (proc[Client].result = "has_stock" /\ Snapshot = pre)
           /\ (/\ pre.warehouses[w].exists
               /\ \A i \in RowsOf(pre, w) : pre.warehouse_stocks[<<w, i>>].quantity = 0)
              => (proc[Client].result = "ok" /\ ~warehouses[w].exists)

\* A warehouse whose only stock row had been set to 0 has been deleted.
C24_Witness ==
    /\ WarehouseDeletion
    /\ proc[Client].result = "ok"
    /\ RowsOf(pre, proc[Client].id) # {}

ProductDeletion == proc[Client].pc = "done" /\ proc[Client].op = "DeleteProduct"

\* The items of an order that are not of product i.
ItemsOfOthers(order, i) == SelectSeq(order.items, LAMBDA it : it.product_id # i)

\* C25: DeleteProduct(i) removes every order item of i, removes every order left with no
\* item, keeps every order that still has items of other products with those items
\* intact, removes the stock rows of i and removes i; if i does not exist the call
\* fails and nothing is changed.
C25_DeleteProductCascade ==
    ProductDeletion =>
        LET i == proc[Client].id
        IN IF ~pre.product[i].exists
           THEN proc[Client].result # "ok" /\ Snapshot = pre
           ELSE /\ proc[Client].result = "ok"
                /\ ~product[i].exists
                /\ \A j \in Products \ {i} : product[j] = pre.product[j]
                /\ \A k \in WsKeys : IF k[2] = i THEN ~warehouse_stocks[k].exists
                                     ELSE warehouse_stocks[k] = pre.warehouse_stocks[k]
                /\ \A o \in Orders :
                      IF pre.orders[o].exists /\ ItemsOfOthers(pre.orders[o], i) # <<>>
                      THEN orders[o] = [pre.orders[o] EXCEPT !.items = ItemsOfOthers(pre.orders[o], i)]
                      ELSE ~orders[o].exists
                /\ stock_transfers = pre.stock_transfers
                /\ warehouses = pre.warehouses

\* The deletion removed one order entirely and took one of two items out of another.
C25_Witness ==
    /\ ProductDeletion
    /\ proc[Client].result = "ok"
    /\ \E o \in Orders : pre.orders[o].exists /\ ~orders[o].exists
    /\ \E o \in Orders : orders[o].exists /\ Len(orders[o].items) < Len(pre.orders[o].items)

\* The caller of the client's call owned the order when the call began.
Owned == /\ pre.orders[proc[Client].id].exists
         /\ pre.orders[proc[Client].id].user_id = proc[Client].user

\* C26: DeleteOrder removes the order with its items and leaves the stock of every
\* product and the quantity of every stock row unchanged, whatever the order's status.
C26_DeleteOrderKeepsStock ==
    (Finished(Client, "DeleteOrder") /\ Owned) =>
        /\ proc[Client].result = "ok"
        /\ orders = [pre.orders EXCEPT ![proc[Client].id] = NoOrder]
        /\ product = pre.product
        /\ warehouse_stocks = pre.warehouse_stocks

\* A confirmed order has been deleted.
C26_Witness ==
    /\ Finished(Client, "DeleteOrder")
    /\ Owned
    /\ pre.orders[proc[Client].id].status = "confirmed"

\* C27: UpdateOrderStatus and DeleteOrder called by a user who does not own the order, or
\* for an order that does not exist, return a not-found error and change neither the
\* order nor any stock quantity.
C27_NotOwnerNotFound ==
    ((Finished(Client, "UpdateOrderStatus") \/ Finished(Client, "DeleteOrder")) /\ ~Owned) =>
        /\ proc[Client].result = "not_found"
        /\ Snapshot = pre

\* Another user has tried to delete an existing order.
C27_Witness ==
    /\ Finished(Client, "DeleteOrder")
    /\ pre.orders[proc[Client].id].exists
    /\ pre.orders[proc[Client].id].user_id # proc[Client].user

\* Sum over the items of quantity times the price of the item's product in tables S.
RECURSIVE Amount(_, _)
Amount(items, S) ==
    IF items = <<>> THEN 0
    ELSE Head(items).quantity * S.product[Head(items).product_id].price + Amount(Tail(items), S)

\* C28: on a successful CreateOrder the stored total_amount is the sum over the requested
\* items of quantity times the price the product had when the order was created; it is
\* also the total returned to the caller.
C28_TotalIsSumOfItems ==
    (CreateReturned /\ proc[Client].result = "ok") =>
        /\ orders[proc[Client].id].total_amount = Amount(proc[Client].items, pre)
        /\ proc[Client].totalAmount = Amount(proc[Client].items, pre)

\* An order of two items whose products have different prices has been created.
C28_Witness ==
    /\ CreateReturned
    /\ proc[Client].result = "ok"
    /\ Len(proc[Client].items) = 2
    /\ pre.product[proc[Client].items[1].product_id].price # pre.product[proc[Client].items[2].product_id].price

\* The price of a product of order o is no longer the one CreateOrder returned for it.
Repriced(o) ==
    \E n \in DOMAIN receipt[o].items :
        product[receipt[o].items[n].product_id].price # receipt[o].items[n].price

\* C29: the unit price of an order item is a snapshot: after UpdateProduct has changed a
\* product's price, the unit price read back with each item of an existing order and the
\* order's total_amount are still the values captured when the order was created.
C29_PriceIsSnapshot ==
    \A o \in Orders :
        (receipt[o].valid /\ orders[o].exists /\ Repriced(o)) =>
            /\ orders[o].total_amount = receipt[o].total_amount
            /\ Len(GetOrderItems(o)) = Len(receipt[o].items)
            /\ \A n \in DOMAIN receipt[o].items : GetOrderItems(o)[n].price = receipt[o].items[n].price

\* C30: committed changes of one stock row are serialized and none is lost: the row's
\* committed quantity is its initial quantity plus the sum of the deltas of all the
\* transactions (AddStock, transfer processing, order confirmation and cancellation) that
\* have committed a change of it.
C30_NoLostUpdate ==
    \A k \in WsKeys :
        warehouse_stocks[k].quantity = pre.warehouse_stocks[k].quantity + ledger[k].delta

\* Two workers wanted the same row at the same time, one AddStock among them, and both
\* have committed their change of it.
C30_Witness ==
    \E k \in WsKeys :
        /\ ledger[k].commits >= 2
        /\ ledger[k].waited
        /\ \A p \in Procs : proc[p].pc = "done" /\ proc[p].result = "ok"
        /\ \E p \in Procs : proc[p].op = "AddStock" /\ k = <<proc[p].wh, proc[p].id>>
        /\ \E p \in Procs : proc[p].op # "AddStock"

\* The client's call of the warehouse implementation has taken its order from a status
\* other than 'confirmed' into 'confirmed'.
Confirmed == proc[Client].pc = "done" /\ WasConfirmation

\* C31: a successful transition of an order into 'confirmed' decreases, for every product,
\* Product.stock and the total quantity of the product's stock rows by the sum of the
\* product's item quantities in the order; products not in the order keep their stock.
C31_ConfirmationDecreases ==
    Confirmed =>
        \A i \in Products :
            /\ product[i].stock = pre.product[i].stock - QtyIn(pre.orders[proc[Client].id].items, i)
            /\ TotalQuantity(Snapshot, i) = TotalQuantity(pre, i) - QtyIn(pre.orders[proc[Client].id].items, i)

\* An order of two items of one product has been confirmed; the other product is not in it.
C31_Witness ==
    /\ Confirmed
    /\ \E i \in Products, j \in Products :
          /\ Len(pre.orders[proc[Client].id].items) = 2
          /\ QtyIn(pre.orders[proc[Client].id].items, i) >= 2
          /\ QtyIn(pre.orders[proc[Client].id].items, j) = 0
          /\ pre.product[j].exists

\* C32: in every committed state a transfer has completed_at set if and only if its status
\* is completed, failed or cancelled; a pending transfer has none.
C32_CompletedAtIffTerminal ==
    \A t \in Transfers :
        stock_transfers[t].exists => (stock_transfers[t].completed_at <=> Terminal(stock_transfers[t].status))

\* A transfer that had failed or been cancelled, with its completed_at, has been set back
\* to pending.
C32_Witness ==
    /\ proc[Client].pc = "done"
    /\ proc[Client].op = "UpdateTransferStatus"
    /\ proc[Client].status = "pending"
    /\ proc[Client].result = "ok"
    /\ pre.stock_transfers[proc[Client].id].status \in {"failed", "cancelled"}
    /\ pre.stock_transfers[proc[Client].id].completed_at
    /\ stock_transfers[proc[Client].id].status = "pending"

\* The client's call asked to confirm an order of its own that was not confirmed.
ConfirmationAsked ==
    /\ proc[Client].pc = "done"
    /\ proc[Client].op \in {"UpdateOrderStatus", "UpdateOrderStatusSingle"}
    /\ proc[Client].status = "confirmed"
    /\ pre.orders[proc[Client].id].exists
    /\ pre.orders[proc[Client].id].user_id = proc[Client].user
    /\ pre.orders[proc[Client].id].status # "confirmed"

\* In tables S some product has less stock, in its counter and in its rows together, than
\* the items ask of it.
Lacking(S, items) ==
    \E i \in Products : /\ QtyIn(items, i) > S.product[i].stock
                        /\ QtyIn(items, i) > TotalQuantity(S, i)

\* C33: a confirmation that fails for lack of stock returns an insufficient-stock error,
\* which the caller can tell from the not-found answer for a missing or foreign order, and
\* never success.
C33_InsufficientIsNotNotFound ==
    (ConfirmationAsked /\ Lacking(pre, pre.orders[proc[Client].id].items)) =>
        /\ proc[Client].result = "insufficient"
        /\ UpdateOrderStatus_Response(proc[Client].result) # UpdateOrderStatus_Response("not_found")
        /\ UpdateOrderStatus_Response(proc[Client].result) # UpdateOrderStatus_Response("ok")

\* The next statement of worker p needs a row lock that the open transaction of worker q
\* holds: a stock row, the product's row or the transfer's row.
WaitsFor(p, q) ==
    \/ \E k \in WsKeys : Writing(p, k) /\ tx[q].ws[k].locked
    \/ /\ proc[p].pc \in {"tr_source_product", "tr_dest_product"}
       /\ tx[q].product[Transfer(p).product_id].locked
    \/ /\ proc[p].pc = "uws_product"
       /\ tx[q].product[Item(p).product_id].locked
    \/ /\ proc[p].pc = "uts_update"
       /\ tx[q].transfers[proc[p].id].locked

\* C34: no request waits forever on another: no state is reached in which each of two
\* transactions waits for a row lock held by the other, in particular not by two
\* concurrent completions of transfers of one product in opposite directions.
C34_NoMutualWait ==
    \A p \in Procs, q \in Procs : ~(p # q /\ WaitsFor(p, q) /\ WaitsFor(q, p))

\* C35: a transfer whose quantity is less than 1 is never persisted, and so never applied
\* to the ledger: every transfer out of a warehouse whose quantity a processing has
\* subtracted from its source has a quantity of at least 1.
C35_NoNonPositiveTransfer ==
    \A t \in Transfers :
        (stock_transfers[t].exists /\ applied[t] > 0 /\ stock_transfers[t].from_warehouse_id # NULL)
            => stock_transfers[t].quantity >= 1

\* The quantity of product i in the existing orders that are confirmed.
ConfirmedQuantity(i) ==
    SumSet([o \in Orders |-> IF orders[o].exists /\ orders[o].status = "confirmed"
                             THEN QtyIn(orders[o].items, i) ELSE 0], Orders)

\* C36: stock is conserved across order operations: between the calls of the client, for
\* every product, Product.stock plus the quantity of the product in the confirmed orders
\* is the product's initial stock (MaxQty here); stated while no order has been deleted.
C36_StockConserved ==
    (proc[Client].pc = "idle" /\ orders[1].exists) =>
        \A i \in Products : product[i].stock + ConfirmedQuantity(i) = MaxQty

\* C37: CreateOrder only checks availability: whatever it returns, it leaves Product.stock
\* and the quantity and reserved_quantity of every stock row as they were, so the pending
\* orders of a product may together ask for more than its stock.
C37_CreateOrderTakesNothing ==
    CreateReturned =>
        /\ \A i \in Products : product[i] = pre.product[i]
        /\ warehouse_stocks = pre.warehouse_stocks

\* CreateOrder has created a second pending order of a product, and the two together ask
\* for more of it than the product's stock, which is what it was.
C37_Witness ==
    /\ CreateReturned
    /\ proc[Client].op = "CreateOrder"
    /\ proc[Client].result = "ok"
    /\ \E i \in Products :
          /\ product[i].exists
          /\ \A o \in Orders : orders[o].exists /\ orders[o].status = "pending"
          /\ SumSet([o \in Orders |-> QtyIn(orders[o].items, i)], Orders) > product[i].stock
          /\ SumSet([o \in Orders |-> QtyIn(orders[o].items, i)], Orders) > TotalQuantity(Snapshot, i)

\* The client's call asked to move an order of its own between 'pending' and 'cancelled'.
AsideAsked ==
    /\ proc[Client].pc = "done"
    /\ proc[Client].op \in {"UpdateOrderStatus", "UpdateOrderStatusSingle"}
    /\ pre.orders[proc[Client].id].exists
    /\ pre.orders[proc[Client].id].user_id = proc[Client].user
    /\ pre.orders[proc[Client].id].status \in {"pending", "cancelled"}
    /\ proc[Client].status \in {"pending", "cancelled"}
    /\ proc[Client].status # pre.orders[proc[Client].id].status

\* C38: a status change that neither enters nor leaves 'confirmed' (pending to cancelled,
\* cancelled to pending) succeeds, changes the order's status and nothing else: every
\* Product.stock and every stock row is as before.
C38_AsideChangesStatusOnly ==
    AsideAsked =>
        /\ proc[Client].result = "ok"
        /\ orders = [pre.orders EXCEPT ![proc[Client].id].status = proc[Client].status]
        /\ product = pre.product
        /\ warehouse_stocks = pre.warehouse_stocks

\* A cancelled order has been set back to pending by the warehouse implementation.
C38_Witness ==
    /\ AsideAsked
    /\ proc[Client].op = "UpdateOrderStatus"
    /\ pre.orders[proc[Client].id].status = "cancelled"
    /\ orders[proc[Client].id].status = "pending"

\* C39: whenever CheckWarehouseStock returns the insufficient-stock error, the AvailableStock
\* the error reports is strictly less than the RequiredStock it reports (the quantity asked).
C39_ReportedAvailableBelowRequired ==
    (/\ proc[Client].pc = "done"
     /\ proc[Client].op = "CheckWarehouseStock"
     /\ proc[Client].result = "insufficient")
        => proc[Client].AvailableStock < proc[Client].quantity

\* ------------------------------------- warehouse deletion against stock arrivals
\* Two workers: each deletes a warehouse or adds stock to one, statement by statement.
NextConcDelete ==
    \/ \E p \in Procs, w \in Warehouses :
          DeleteWarehouse_Count(p, w) /\ UNCHANGED <<pre, prev, held, applied, receipt, ledger>>
    \/ \E p \in Procs : DeleteWarehouse_Delete(p) /\ UNCHANGED <<pre, prev, held, applied, receipt, ledger>>
    \/ \E p \in Procs, w \in Warehouses, i \in Products, q \in 1..MaxQty :
          AddStock_Begin(p, w, i, q) /\ UNCHANGED <<pre, prev, held, applied, receipt, ledger>>
    \/ \E p \in Procs : AddStockStep(p) /\ UNCHANGED <<pre, prev, held, applied, receipt, ledger>>

SpecConcDelete == InitWarehouses /\ [][NextConcDelete]_vars

\* C40: with DeleteWarehouse running beside AddStock on the same warehouse, no warehouse is
\* deleted while one of its committed stock rows has quantity > 0: the step that deletes a
\* warehouse starts from tables in which every stock row of the warehouse has quantity <= 0.
C40_NoDeletionOverStock ==
    [][\A w \in Warehouses :
          (warehouses[w].exists /\ ~warehouses'[w].exists)
              => \A i \in Products : ~(/\ warehouse_stocks[<<w, i>>].exists
                                        /\ warehouse_stocks[<<w, i>>].quantity > 0)]_vars

====
